---- MODULE Spec2Model ----
(***************************************************************************)
(* Butterfly-Backup (bb.py, utility.py): the backup catalog, the backup    *)
(* composer, the job scheduler with retry, the retention and archive       *)
(* policies and the catalog maintenance sub-actions, as a state machine.   *)
(***************************************************************************)
EXTENDS Integers, Sequences, FiniteSets, TLC

(* ---------------------------- bounds ----------------------------------- *)
\* number of backup ids utility.new_id() hands out in one behaviour
MaxId == 2
\* the wall clock runs from 0 to MaxTime (in seconds)
MaxTime == 2
\* largest retention / archive window, in days
MaxDays == 0
\* largest --retry budget
MaxRetry == 2
\* largest second element of --retention (minimum number of backups)
MaxMinCount == 1
\* length of the host list of one backup run
MaxHosts == 2
MaxParallel == 2
\* seconds of the behaviours of the cleaned and archived markers
MarkersTime == 1
\* ids and seconds of the behaviours of one host's backup chain
ChainIds == 3
ChainTime == 3
\* seconds of the behaviours of the three-backup retention scenario
ScenarioTime == 5
\* scaled calendar: seconds per minute, minutes per day
SecsPerMin == 2
MinsPerDay == 1

SecsPerDay == SecsPerMin * MinsPerDay
Hosts == {"h1", "h2"}
Modes == {"full", "incremental", "differential", "mirror"}
\* rsync exit codes: success, an error, a partial transfer
ExitCodes == {0, 1, 23}
\* Python's None as a return code
PyNone == -2

(* ------------------------- utility.py: time ---------------------------- *)
\* a time string "%Y-%m-%d %H:%M:%S" is the pair <<date, second of the day>>
time_for_log(t) == <<t \div SecsPerDay, t % SecsPerDay>>

\* "%Y_%m_%d__%H_%M": the date and the minute of the day
time_for_folder(t) == <<t \div SecsPerDay, (t % SecsPerDay) \div SecsPerMin>>

string_to_time(string) == string[1] * SecsPerDay + string[2]

time_to_string(date) == <<date \div SecsPerDay, date % SecsPerDay>>

\* the folder name of a mirror backup
mirror_backup == <<-1, -1>>

(* ------------------------- the catalog --------------------------------- *)
\* A section of the catalog file. An option that is absent is "" / <<>> /
\* -1 / FALSE; cleaned and archived are only ever written as "True".
NewSection(bid) ==
  [id |-> bid, name |-> "", type |-> "", os |-> "", path |-> <<>>,
   timestamp |-> <<>>, start |-> <<>>, end |-> <<>>, status |-> -1,
   cleaned |-> FALSE, archived |-> FALSE]

sections(config) == [i \in DOMAIN config |-> config[i].id]

has_section(config, bid) == \E i \in DOMAIN config : config[i].id = bid

IndexOf(config, bid) == CHOOSE i \in DOMAIN config : config[i].id = bid

Section(config, bid) == config[IndexOf(config, bid)]

Min(S) == CHOOSE x \in S : \A y \in S : x <= y

Max(S) == CHOOSE x \in S : \A y \in S : y <= x

remove_section(config, bid) == SelectSeq(config, LAMBDA r : r.id # bid)

\* a variant of write_catalog that writes the section anew, with the one
\* option only
write_section_anew(config, dry, section, key, value) ==
  IF dry THEN config
  ELSE IF has_section(config, section)
       THEN [config EXCEPT ![IndexOf(config, section)] =
                              [NewSection(section) EXCEPT ![key] = value]]
       ELSE Append(config, [NewSection(section) EXCEPT ![key] = value])

\* a variant of write_catalog that drops the markers cleaned and archived
\* of the section it writes to
write_dropping_markers(config, dry, section, key, value) ==
  IF dry THEN config
  ELSE IF has_section(config, section)
       THEN [config EXCEPT ![IndexOf(config, section)] =
               [[@ EXCEPT !.cleaned = FALSE, !.archived = FALSE]
                  EXCEPT ![key] = value]]
       ELSE Append(config, [NewSection(section) EXCEPT ![key] = value])

\* write_catalog: read the file, set one option of one section (adding the
\* section at the end when it is new), write the file; nothing under dry-run
write_catalog(catalog, dry, section, key, value) ==
  IF dry THEN catalog
  ELSE IF has_section(catalog, section)
       THEN [catalog EXCEPT ![IndexOf(catalog, section)][key] = value]
       ELSE Append(catalog, [NewSection(section) EXCEPT ![key] = value])

(* ------------------------- catalog queries ----------------------------- *)
\* the filter of get_last_backup / get_last_full:
\* not has_option(cleaned) or not has_option(archived)
Eligible(r) == (~r.cleaned) \/ (~r.archived)

get_last_full(config, hostname) ==
  LET cand == {i \in DOMAIN config : /\ config[i].type = "full"
                                     /\ config[i].name = hostname
                                     /\ Eligible(config[i])}
      dates == {string_to_time(config[i].timestamp) : i \in cand}
  IN IF dates = {} THEN <<>>
     ELSE LET last_full == time_to_string(Max(dates))
              hit == {i \in DOMAIN config : /\ config[i].type = "full"
                                            /\ config[i].name = hostname
                                            /\ config[i].timestamp = last_full}
          IN IF hit = {} THEN <<>>
             ELSE <<config[Min(hit)].path, config[Min(hit)].os>>

get_last_backup(config, hostname) ==
  LET cand == {i \in DOMAIN config : /\ config[i].name = hostname
                                     /\ Eligible(config[i])}
      dates == {string_to_time(config[i].timestamp) : i \in cand}
  IN IF dates = {} THEN <<>>
     ELSE LET last == time_to_string(Max(dates))
              hit == {i \in DOMAIN config : /\ config[i].name = hostname
                                            /\ config[i].timestamp = last}
          IN IF hit = {} THEN <<>>
             ELSE <<config[Min(hit)].path, config[Min(hit)].os, config[Min(hit)].id>>

\* get_last_full does not return: config.get(bid, "type") or, for a section
\* of type full, config.get(bid, "name") raises NoOptionError when the
\* option is absent; a chosen section without timestamp makes it exit(2),
\* and one met by the second loop raises NoOptionError
get_last_full_raises(config, hostname) ==
  \/ \E i \in DOMAIN config : config[i].type = ""
  \/ \E i \in DOMAIN config : config[i].type = "full" /\ config[i].name = ""
  \/ \E i \in DOMAIN config : /\ config[i].type = "full"
                                /\ config[i].name = hostname
                                /\ config[i].timestamp = <<>>
                                /\ \/ Eligible(config[i])
                                   \/ \E j \in DOMAIN config :
                                        /\ config[j].type = "full"
                                        /\ config[j].name = hostname
                                        /\ Eligible(config[j])

\* get_last_backup does not return: config.get(bid, "name") raises
\* NoOptionError for a section without name; a chosen section without
\* timestamp makes it exit(2), and one met by the second loop raises
get_last_backup_raises(config, hostname) ==
  \/ \E i \in DOMAIN config : config[i].name = ""
  \/ \E i \in DOMAIN config : /\ config[i].name = hostname
                                /\ config[i].timestamp = <<>>
                                /\ \/ Eligible(config[i])
                                   \/ \E j \in DOMAIN config :
                                        /\ config[j].name = hostname
                                        /\ Eligible(config[j])

\* count_full raises NoOptionError: a section without type, or one of type
\* full or incremental without name
count_full_raises(config) ==
  \E i \in DOMAIN config :
    \/ config[i].type = ""
    \/ config[i].type \in {"full", "incremental"} /\ config[i].name = ""

\* list_backup raises NoOptionError: a section without name
list_backup_raises(config) == \E i \in DOMAIN config : config[i].name = ""

count_full(config, name) ==
  Cardinality({i \in DOMAIN config :
                 /\ config[i].type \in {"full", "incremental"}
                 /\ config[i].name = name})

list_backup(config, name) ==
  sections(SelectSeq(config, LAMBDA r : r.name = name))

\* Python's s[:n] : the first n elements
SliceFirst(s, n) ==
  IF n >= Len(s) THEN s ELSE SubSeq(s, 1, n)

\* Python's s[-n:] : the last n elements, and the whole list when n = 0
\* (s[-0:] is s[0:]) or n >= len(s)
SliceLast(s, n) ==
  IF n = 0 \/ n >= Len(s) THEN s ELSE SubSeq(s, Len(s) - n + 1, Len(s))

SeqRange(s) == {s[i] : i \in DOMAIN s}

(* ------------------- utility.py: cleanup and archive ------------------- *)
\* utility.cleanup: rmtree(path) when the date is older than `days`; rmtree
\* raises OSError when the folder is missing or cannot be deleted (locked).
\* Returns the exit code (0, 1, or None when the date is not old enough).
cleanup(files, locked, t, path, date, days) ==
  IF string_to_time(date) < t - days * SecsPerDay
  THEN IF path \in files /\ path \notin locked
       THEN [code |-> 0, fs |-> files \ {path}]
       ELSE [code |-> 1, fs |-> files]
  ELSE [code |-> PyNone, fs |-> files]

\* utility.archive: zip an old, existing folder into an existing
\* destination, then cleanup() the folder; the result of that cleanup is
\* only reported, the exit code is 0 as soon as the zip file is made.
\* make_archive / mkdir raise OSError for the folders in zipfail.
archive(files, locked, zipfail, dest_exists, t, path, date, days) ==
  IF string_to_time(date) < t - days * SecsPerDay
        /\ path \in files /\ dest_exists
  THEN IF path \in zipfail
       THEN [code |-> 1, fs |-> files]
       ELSE [code |-> 0, fs |-> cleanup(files, locked, t, path, date, days).fs]
  ELSE [code |-> PyNone, fs |-> files]

(* ------------------------- retention_policy ---------------------------- *)
\* a variant of the iteration that leaves the test of the name out
retention_body_any_host(st, r, e) ==
  IF st.raised \/ r.id \in SeqRange(e.backup_list) THEN st
  ELSE IF r.cleaned THEN st
  ELSE IF r.type = "" \/ r.path = <<>> \/ r.timestamp = <<>>
       THEN [st EXCEPT !.raised = TRUE]
  ELSE IF r.type \in {"full", "incremental"} /\ e.full_count <= 1 THEN st
  ELSE LET c1 == IF ~e.dry
                 THEN cleanup(st.fs, e.locked, e.now, r.path, r.timestamp,
                              e.retention[1])
                 ELSE [code |-> st.cleanup, fs |-> st.fs]
           c2 == IF r.path \notin c1.fs THEN 0 ELSE c1.code
       IN [catalog |-> IF c2 = 0
                       THEN write_catalog(st.catalog, e.dry, r.id, "cleaned", TRUE)
                       ELSE st.catalog,
           fs |-> c1.fs,
           cleanup |-> c2,
           raised |-> FALSE]

\* one iteration of `for bid in config.sections()`; st carries the catalog
\* file, the file system, the local variable `cleanup` and whether a
\* config.get without fallback has raised NoOptionError (the loop has ended
\* then: an uncleaned section without name, or a section of the host
\* without type, path or timestamp)
retention_body(st, r, e) ==
  IF st.raised \/ r.id \in SeqRange(e.backup_list) THEN st
  ELSE IF ~r.cleaned /\ r.name = "" THEN [st EXCEPT !.raised = TRUE]
  ELSE IF ~(~r.cleaned /\ r.name = e.host) THEN st
  ELSE IF r.type = "" \/ r.path = <<>> \/ r.timestamp = <<>>
       THEN [st EXCEPT !.raised = TRUE]
  ELSE IF r.type \in {"full", "incremental"} /\ e.full_count <= 1 THEN st
  ELSE LET c1 == IF ~e.dry
                 THEN cleanup(st.fs, e.locked, e.now, r.path, r.timestamp,
                              e.retention[1])
                 ELSE [code |-> st.cleanup, fs |-> st.fs]
           c2 == IF r.path \notin c1.fs THEN 0 ELSE c1.code
       IN [catalog |-> IF c2 = 0
                       THEN write_catalog(st.catalog, e.dry, r.id, "cleaned", TRUE)
                       ELSE st.catalog,
           fs |-> c1.fs,
           cleanup |-> c2,
           raised |-> FALSE]

RECURSIVE retention_loop(_, _, _, _)
retention_loop(i, st, config, e) ==
  IF i > Len(config) THEN st
  ELSE retention_loop(i + 1, retention_body(st, config[i], e), config, e)

\* the local backup_list of retention_policy: the sections exempt from cleanup
backup_list(config, host, retention) ==
  IF Len(retention) = 2
  THEN SliceLast(list_backup(config, host), retention[2])
  ELSE <<>>

\* retention_policy(host, catalog, logpath) with args.retention = retention
\* (<<days>> or <<days, min_count>>) and args.dry_run = dry
retention_policy(host, catalog, files, retention, dry, t, locked) ==
  LET config == catalog
      e == [host |-> host, dry |-> dry, now |-> t, locked |-> locked,
            retention |-> retention,
            full_count |-> count_full(config, host),
            backup_list |-> backup_list(config, host, retention)]
  IN retention_loop(1, [catalog |-> catalog, fs |-> files, cleanup |-> -1,
                        raised |-> \/ count_full_raises(config)
                                   \/ Len(retention) = 2
                                        /\ list_backup_raises(config)],
                    config, e)

(* -------------------------- archive_policy ----------------------------- *)
\* one iteration of `for bid in config.sections()`; st.raised: a config.get
\* without fallback has raised NoOptionError (the name of any section,
\* count_full, or type, path, timestamp of a section to archive)
archive_body(st, r, config, e) ==
  LET full_count == count_full(config, r.name)
  IN IF st.raised THEN st
     ELSE IF r.name = "" \/ count_full_raises(config)
          THEN [st EXCEPT !.raised = TRUE]
     ELSE IF ~(~r.archived /\ ~r.cleaned) THEN st
     ELSE IF r.type = "" \/ r.path = <<>> \/ r.timestamp = <<>>
          THEN [st EXCEPT !.raised = TRUE]
     ELSE IF r.type = "full" /\ full_count <= 1 THEN st
     ELSE LET a == IF ~e.dry
                   THEN archive(st.fs, e.locked, e.zipfail, e.dest_exists,
                                e.now, r.path, r.timestamp, e.days)
                   ELSE [code |-> st.archive, fs |-> st.fs]
          IN [catalog |-> IF a.code = 0
                          THEN write_catalog(st.catalog, e.dry, r.id, "archived", TRUE)
                          ELSE st.catalog,
              fs |-> a.fs,
              archive |-> a.code,
              raised |-> FALSE]

RECURSIVE archive_loop(_, _, _, _)
archive_loop(i, st, config, e) ==
  IF i > Len(config) THEN st
  ELSE archive_loop(i + 1, archive_body(st, config[i], config, e), config, e)

archive_policy(catalog, files, days, dry, dest_exists, t, locked, zipfail) ==
  LET config == catalog
      e == [dry |-> dry, now |-> t, locked |-> locked, zipfail |-> zipfail,
            dest_exists |-> dest_exists, days |-> days]
  IN archive_loop(1, [catalog |-> catalog, fs |-> files, archive |-> -1,
                      raised |-> FALSE],
                  config, e)

(* ------------------------------ state ---------------------------------- *)
VARIABLES
  catalog,      \* the catalog file: the sequence of its sections
  fs,           \* the backup folders that exist on disk
  now,          \* the wall clock
  nextid,       \* the next id of utility.new_id()
  pc,           \* position of the controlling process
  args,         \* the parsed command line of the running action
  hidx,         \* main: position in `for hostname in hostnames`
  cmds,         \* main: the composed commands
  logs,         \* the global `logs`: one log_args per composed host
  ssh_check,    \* main: the result of the last utility.check_ssh
  batch,        \* run_in_parallel: its `commands` parameter
  codes,        \* run_in_parallel: the exit codes p.get() of `jobs`
  jidx,         \* run_in_parallel: position in the exit-code loop
  retries,      \* run_in_parallel: necessaries_retries
  bad_results,  \* main: the value returned by the last run_in_parallel
  round,        \* main: 0 in the first run, k in the k-th retry round
  retry_range,  \* main: the range(args.retry) of the retry loop
  last_job,     \* history: the command and the log_args of the last job read
  jobs,         \* history: per composed command, its runs and last exit code
  pool,         \* run_in_parallel: per submitted job, where it is in the pool
  limit,        \* run_in_parallel: the number of worker processes of the pool
  config_read   \* write_catalog: the configuration read, <<PyNone>> outside

vars == <<catalog, fs, now, nextid, pc, args, hidx, cmds, logs, ssh_check,
          batch, codes, jidx, retries, bad_results, round, retry_range,
          last_job, jobs, pool, limit, config_read>>

\* the state of the pool and of a write_catalog under way
poolvars == <<pool, limit, config_read>>

runvars == <<args, hidx, cmds, logs, ssh_check, batch, codes, jidx, retries,
             bad_results, round, retry_range, last_job, jobs, pool, limit,
             config_read>>

NoArgs ==
  [action |-> "", hostnames |-> <<>>, mode |-> "", dry_run |-> FALSE,
   retention |-> <<>>, skip_err |-> FALSE, retry |-> 0, sfrom |-> 0]

NoJob ==
  [cmd_id |-> 0, cmd_host |-> "", rec_id |-> 0, rec_host |-> "", code |-> 0,
   ret_host |-> ""]

\* the host lists of --computer / --list: each host is named once
HostLists ==
  {l \in UNION {[1..n -> Hosts] : n \in 1..MaxHosts} :
     \A i, j \in DOMAIN l : l[i] = l[j] => i = j}

\* the values of --retention: absent, DAYS, or DAYS NUMBER
Retentions ==
  {<<>>} \cup {<<d>> : d \in 0..MaxDays}
         \cup {<<d, m>> : d \in 0..MaxDays, m \in 0..MaxMinCount}

Init ==
  /\ catalog = <<>>
  /\ fs = {}
  /\ now = 0
  /\ nextid = 1
  /\ pc = "idle"
  /\ args = NoArgs
  /\ hidx = 0
  /\ cmds = <<>>
  /\ logs = <<>>
  /\ ssh_check = FALSE
  /\ batch = <<>>
  /\ codes = <<>>
  /\ jidx = 0
  /\ retries = <<>>
  /\ bad_results = <<>>
  /\ round = 0
  /\ retry_range = 0
  /\ last_job = NoJob
  /\ jobs = <<>>
  /\ pool = <<>>
  /\ limit = 0
  /\ config_read = <<PyNone>>

\* time passes: between two runs of bb, and while the pool runs the jobs
\* (composing a command and reading an exit code take no time)
Tick(tmax) ==
  /\ now < tmax
  /\ pc = "idle" \/ (pc = "collect" /\ jidx = 1)
  /\ now' = now + 1
  /\ UNCHANGED <<catalog, fs, nextid, pc, runvars>>

(* --------------------------- bb backup --------------------------------- *)
\* main, action "backup": the command line is parsed, the host list is built;
\* sfrom is the id given to --start-from, 0 when the option is absent
StartBackup(hostnames, mode, dry, retention, skip_err, retry, sfrom) ==
  /\ pc = "idle"
  /\ args' = [action |-> "backup", hostnames |-> hostnames, mode |-> mode,
              dry_run |-> dry, retention |-> retention,
              skip_err |-> skip_err, retry |-> retry, sfrom |-> sfrom]
  /\ hidx' = 1
  /\ cmds' = <<>>
  /\ logs' = <<>>
  /\ pc' = "compose"
  /\ UNCHANGED poolvars
  /\ UNCHANGED <<catalog, fs, now, nextid, ssh_check, batch, codes, jidx,
                 retries, bad_results, round, retry_range, last_job, jobs>>

\* compose_command, action "backup", for the global hostname and backup_id:
\* the rsync mode flag, the --link-dest baseline and the catalog after the
\* write of "type"; with --start-from no --link-dest is added
compose_command(cat, dry, mode, sfrom, hostname, backup_id) ==
  LET last_bck == get_last_backup(cat, hostname)
      last_full == get_last_full(cat, hostname)
  IN CASE mode = "full" ->
            [flag |-> "-ah", link_dest |-> <<>>,
             catalog |-> write_catalog(cat, dry, backup_id, "type", "full")]
       [] mode = "incremental" ->
            IF last_bck # <<>>
            THEN [flag |-> "-ahu",
                  link_dest |-> IF sfrom = 0 THEN last_bck[1] ELSE <<>>,
                  catalog |-> write_catalog(cat, dry, backup_id, "type", "incremental")]
            ELSE [flag |-> "-ah", link_dest |-> <<>>,
                  catalog |-> write_catalog(cat, dry, backup_id, "type", "full")]
       [] mode = "differential" ->
            IF last_full # <<>>
            THEN [flag |-> "-ahu",
                  link_dest |-> IF sfrom = 0 THEN last_full[1] ELSE <<>>,
                  catalog |-> write_catalog(cat, dry, backup_id, "type", "differential")]
            ELSE [flag |-> "-ah", link_dest |-> <<>>,
                  catalog |-> write_catalog(cat, dry, backup_id, "type", "full")]
       [] mode = "mirror" ->
            [flag |-> "-ah --delete", link_dest |-> <<>>,
             catalog |-> write_catalog(cat, dry, backup_id, "type", "mirror")]

\* compose_command does not return: the query of its mode raises or exits
compose_command_raises(cat, mode, hostname) ==
  \/ mode = "incremental" /\ get_last_backup_raises(cat, hostname)
  \/ mode = "differential" /\ get_last_full_raises(cat, hostname)

\* compose_destination: <folder>/<computer_name>/<time or mirror_backup>
compose_destination(computer_name, mode, t) ==
  <<computer_name, IF mode # "mirror" THEN time_for_folder(t) ELSE mirror_backup>>

\* a variant of copy_dest that does not look whether the folder exists
copy_dest_unchecked(backup_catalog, files, sfrom) ==
  IF sfrom # 0 /\ has_section(backup_catalog, sfrom)
  THEN Section(backup_catalog, sfrom).path
  ELSE <<>>

\* the --copy-dest of --start-from: the path of the section sfrom of the
\* catalog read before the command is composed, when that folder exists
copy_dest(backup_catalog, files, sfrom) ==
  IF sfrom # 0 /\ has_section(backup_catalog, sfrom)
        /\ Section(backup_catalog, sfrom).path \in files
  THEN Section(backup_catalog, sfrom).path
  ELSE <<>>

\* one iteration of `for hostname in hostnames`: the connectivity checks
\* (res), then the composition of the command and of the catalog record;
\* utility.new_id() hands out the ids 1..idcap.  When the id of
\* --start-from is not a section of the catalog the process exits, and when
\* its section has no path option backup_catalog.get raises NoOptionError;
\* both after compose_command has run.  When compose_command itself raises
\* the process ends before anything is written for the new id.
ComposeHost(res, idcap) ==
  /\ pc = "compose"
  /\ hidx <= Len(args.hostnames)
  /\ LET hostname == args.hostnames[hidx] IN
     /\ ssh_check' = (res # "ssh_fail")
     /\ hidx' = hidx + 1
     /\ IF res # "ok"
        THEN UNCHANGED <<catalog, fs, nextid, cmds, logs, pc>>
        ELSE /\ nextid <= idcap
             /\ LET backup_id == nextid
                    dry == args.dry_run
                    backup_catalog == catalog
                    cc == compose_command(catalog, dry, args.mode, args.sfrom,
                                          hostname, backup_id)
                    c2 == write_catalog(cc.catalog, dry, backup_id, "name", hostname)
                    c3 == write_catalog(c2, dry, backup_id, "os", "unix")
                    bck_dst == compose_destination(hostname, args.mode, now)
                    c4 == write_catalog(c3, dry, backup_id, "path", bck_dst)
                    c5 == write_catalog(c4, dry, backup_id, "timestamp", time_for_log(now))
                IN /\ nextid' = nextid + 1
                   /\ logs' = Append(logs, [id |-> backup_id, hostname |-> hostname])
                   /\ IF compose_command_raises(catalog, args.mode, hostname)
                      THEN /\ pc' = "fatal"
                           /\ UNCHANGED <<catalog, fs, cmds>>
                      ELSE IF args.sfrom # 0
                         /\ (\/ ~has_section(backup_catalog, args.sfrom)
                             \/ Section(backup_catalog, args.sfrom).path = <<>>)
                      THEN /\ pc' = "fatal"
                           /\ catalog' = cc.catalog
                           /\ UNCHANGED <<fs, cmds>>
                      ELSE /\ pc' = pc
                           /\ fs' = fs \cup {bck_dst}
                           /\ cmds' = Append(cmds,
                                  [id |-> backup_id, host |-> hostname,
                                   flag |-> cc.flag,
                                   link_dest |-> cc.link_dest,
                                   copy_dest |-> copy_dest(backup_catalog, fs, args.sfrom),
                                   dest |-> bck_dst])
                           /\ catalog' = c5
  /\ UNCHANGED poolvars
  /\ UNCHANGED <<now, args, batch, codes, jidx, retries, bad_results,
                 round, retry_range, last_job, jobs>>

\* one iteration of `for hostname in hostnames` of a run with --log, for a
\* host that passes its checks, up to the return of compose_command: with
\* --log compose_command calls compose_destination for the path of the
\* log file, which makes the folder of that moment and writes it as path
ComposeCommandLog(idcap) ==
  /\ pc = "compose"
  /\ hidx <= Len(args.hostnames)
  /\ nextid <= idcap
  /\ ~compose_command_raises(catalog, args.mode, args.hostnames[hidx])
  /\ LET hostname == args.hostnames[hidx]
         backup_id == nextid
         cc == compose_command(catalog, args.dry_run, args.mode, args.sfrom,
                               hostname, backup_id)
         log_dst == compose_destination(hostname, args.mode, now)
     IN /\ ssh_check' = TRUE
        /\ logs' = Append(logs, [id |-> backup_id, hostname |-> hostname])
        /\ catalog' = write_catalog(cc.catalog, args.dry_run, backup_id, "path",
                                    log_dst)
        /\ fs' = fs \cup {log_dst}
        /\ batch' = <<[id |-> backup_id, host |-> hostname, flag |-> cc.flag,
                       link_dest |-> cc.link_dest,
                       copy_dest |-> copy_dest(catalog, fs, args.sfrom),
                       log_file |-> log_dst]>>
        /\ pc' = "compose_main"
  /\ UNCHANGED poolvars
  /\ UNCHANGED <<now, nextid, args, hidx, cmds, codes, jidx, retries,
                 bad_results, round, retry_range, last_job, jobs>>

\* the wall clock moves on between the return of compose_command and the
\* call of compose_destination in main
TickCompose(tmax) ==
  /\ now < tmax
  /\ pc = "compose_main"
  /\ now' = now + 1
  /\ UNCHANGED <<catalog, fs, nextid, pc, runvars>>

\* the rest of the iteration: name and os are written, compose_destination
\* makes the folder of this moment and writes it as path, the command is
\* added to cmds and the timestamp is written.  (batch holds the command
\* under composition in between.)
ComposeMainLog ==
  /\ pc = "compose_main"
  /\ LET hostname == args.hostnames[hidx]
         backup_id == nextid
         dry == args.dry_run
         c2 == write_catalog(catalog, dry, backup_id, "name", hostname)
         c3 == write_catalog(c2, dry, backup_id, "os", "unix")
         bck_dst == compose_destination(hostname, args.mode, now)
         c4 == write_catalog(c3, dry, backup_id, "path", bck_dst)
         c5 == write_catalog(c4, dry, backup_id, "timestamp", time_for_log(now))
     IN /\ IF args.sfrom # 0
              /\ (\/ ~has_section(catalog, args.sfrom)
                  \/ Section(catalog, args.sfrom).path = <<>>)
           THEN /\ pc' = "fatal"
                /\ UNCHANGED <<catalog, fs, cmds>>
           ELSE /\ pc' = "compose"
                /\ fs' = fs \cup {bck_dst}
                /\ cmds' = Append(cmds, batch[1] @@ [dest |-> bck_dst])
                /\ catalog' = c5
  /\ nextid' = nextid + 1
  /\ hidx' = hidx + 1
  /\ batch' = <<>>
  /\ UNCHANGED poolvars
  /\ UNCHANGED <<now, args, logs, ssh_check, codes, jidx, retries,
                 bad_results, round, retry_range, last_job, jobs>>

\* main, after the loop: `if ssh_check:` start the backup
StartJobs ==
  /\ pc = "compose"
  /\ hidx > Len(args.hostnames)
  /\ IF ssh_check
     THEN /\ pc' = "dispatch"
          /\ batch' = cmds
     ELSE /\ pc' = "done"
          /\ UNCHANGED batch
  /\ jobs' = [i \in DOMAIN cmds |-> [id |-> cmds[i].id, runs |-> 0, last |-> -1]]
  /\ UNCHANGED poolvars
  /\ UNCHANGED <<catalog, fs, now, nextid, args, hidx, cmds, logs, ssh_check,
                 codes, jidx, retries, bad_results, round, retry_range, last_job>>

(* -------------------------- run_in_parallel ---------------------------- *)
\* zip(commands, logs) stops at the shorter of the two lists
ZipLen(commands, plogs) == IF Len(commands) <= Len(plogs) THEN Len(commands) ELSE Len(plogs)

\* a variant of the first loop that writes no "start"
write_no_starts(cat, dry, plogs, t, n) == cat

\* the writes of "start" made by the first loop of run_in_parallel
RECURSIVE write_starts(_, _, _, _, _)
write_starts(cat, dry, plogs, t, n) ==
  IF n = 0 THEN cat
  ELSE write_catalog(write_starts(cat, dry, plogs, t, n - 1), dry,
                     plogs[n].id, "start", time_for_log(t))

\* history: the jobs of the batch have run once more, with these exit codes
RanJobs(js, commands, cs) ==
  [i \in DOMAIN js |->
     IF \E k \in DOMAIN cs : commands[k].id = js[i].id
     THEN LET k == CHOOSE k \in DOMAIN cs : commands[k].id = js[i].id
          IN [js[i] EXCEPT !.runs = @ + 1, !.last = cs[k]]
     ELSE js[i]]

\* run_in_parallel up to the end of the wait: every command of the batch is
\* given to the pool, "start" is written for each (command, plog) pair, and
\* the pool runs the jobs to completion with the exit codes cs
Dispatch(cs) ==
  /\ pc = "dispatch"
  /\ catalog' = IF args.action = "backup"
                THEN write_starts(catalog, args.dry_run, logs, now,
                                  ZipLen(batch, logs))
                ELSE catalog
  /\ codes' = cs
  /\ jidx' = 1
  /\ retries' = <<>>
  /\ jobs' = RanJobs(jobs, batch, cs)
  /\ pc' = "collect"
  /\ UNCHANGED poolvars
  /\ UNCHANGED <<fs, now, nextid, args, hidx, cmds, logs, ssh_check, batch,
                 bad_results, round, retry_range, last_job>>

(* ---------------------- run_in_parallel, job by job -------------------- *)
\* the limit that main gives to run_in_parallel: args.parallel for a
\* backup, 1 for a restore and an export
PoolLimit(action, parallel) == IF action = "backup" THEN parallel ELSE 1

\* Pool(processes=limit): the pool of the call is created; limit < 1 raises
\* ValueError.  args.parallel is the same in every call of one run.
PoolCreate(parallel) ==
  /\ pc = "dispatch"
  /\ round = 0 \/ PoolLimit(args.action, parallel) = limit
  /\ IF PoolLimit(args.action, parallel) < 1
     THEN /\ pc' = "fatal"
          /\ UNCHANGED <<pool, limit, codes, jidx, retries>>
     ELSE /\ pc' = "submit"
          /\ limit' = PoolLimit(args.action, parallel)
          /\ pool' = <<>>
          /\ codes' = <<>>
          /\ jidx' = 1
          /\ retries' = <<>>
  /\ UNCHANGED <<catalog, fs, now, nextid, args, hidx, cmds, logs, ssh_check,
                 batch, bad_results, round, retry_range, last_job, jobs,
                 config_read>>

\* one iteration of `for command, plog in zip(commands, logs)`, up to the
\* read of the catalog file in write_catalog: pool.apply_async queues the
\* job; for action "backup" write_catalog reads the configuration
Submit ==
  /\ pc = "submit"
  /\ jidx <= ZipLen(batch, logs)
  /\ pool' = Append(pool, "queued")
  /\ codes' = Append(codes, PyNone)
  /\ IF args.action = "backup"
     THEN /\ config_read' = catalog
          /\ pc' = "write_start"
          /\ UNCHANGED jidx
     ELSE /\ jidx' = jidx + 1
          /\ UNCHANGED <<config_read, pc>>
  /\ UNCHANGED <<catalog, fs, now, nextid, args, hidx, cmds, logs, ssh_check,
                 batch, retries, bad_results, round, retry_range, last_job,
                 jobs, limit>>

\* the rest of write_catalog(catalog_path, plog["id"], "start", ...): the
\* option is set in the configuration read and the file is written
WriteStart ==
  /\ pc = "write_start"
  /\ catalog' = IF args.dry_run THEN catalog
                ELSE write_catalog(config_read, FALSE, logs[jidx].id, "start",
                                   time_for_log(now))
  /\ config_read' = <<PyNone>>
  /\ jidx' = jidx + 1
  /\ pc' = "submit"
  /\ UNCHANGED <<fs, now, nextid, args, hidx, cmds, logs, ssh_check, batch,
                 codes, retries, bad_results, round, retry_range, last_job,
                 jobs, pool, limit>>

\* the jobs of the pool that a worker process is running
Running(p) == {i \in DOMAIN p : p[i] = "running"}

\* a variant of the pool in which a queued job never waits for a worker
any_worker(p, lim) == TRUE

\* the pool has `lim` worker processes, each runs one job at a time: a
\* worker is free when fewer than lim jobs are running
free_worker(p, lim) == Cardinality(Running(p)) < lim

\* a free worker takes the oldest queued job and calls start_process
WorkerStart(i) ==
  /\ i \in DOMAIN pool
  /\ pool[i] = "queued"
  /\ \A j \in 1..(i - 1) : pool[j] # "queued"
  /\ free_worker(pool, limit)
  /\ pool' = [pool EXCEPT ![i] = "running"]
  /\ UNCHANGED <<catalog, fs, now, nextid, pc, args, hidx, cmds, logs,
                 ssh_check, batch, codes, jidx, retries, bad_results, round,
                 retry_range, last_job, jobs, limit, config_read>>

\* a variant of start_process that writes the exit code to the catalog
start_process_writes(cat, command, p) ==
  write_catalog(cat, FALSE, command.id, "status", p)

\* start_process(command) in a worker: subprocess.call runs the transfer
\* and returns its exit code p; the catalog file is as it was
start_process(cat, command, p) == cat

\* the transfer of job i ends with exit code p: the result is ready
WorkerExit(i, p) ==
  /\ i \in DOMAIN pool
  /\ pool[i] = "running"
  /\ pool' = [pool EXCEPT ![i] = "ready"]
  /\ codes' = [codes EXCEPT ![i] = p]
  /\ catalog' = start_process(catalog, batch[i], p)
  /\ UNCHANGED <<fs, now, nextid, pc, args, hidx, cmds, logs, ssh_check,
                 batch, jidx, retries, bad_results, round, retry_range,
                 last_job, jobs, limit, config_read>>

\* a variant of the wait that ends as soon as one job is ready
any_ready(p) == \E i \in DOMAIN p : p[i] = "ready"

\* all([p.ready() for p in jobs])
all_ready(p) == \A i \in DOMAIN p : p[i] = "ready"

\* `while not all([p.ready() for p in jobs]): time.sleep(5)` ends, after
\* the loop that submits the jobs
WaitDone ==
  /\ pc = "submit"
  /\ jidx > ZipLen(batch, logs)
  /\ all_ready(pool)
  /\ pc' = "collect"
  /\ jidx' = 1
  /\ jobs' = RanJobs(jobs, batch, codes)
  /\ UNCHANGED <<catalog, fs, now, nextid, args, hidx, cmds, logs, ssh_check,
                 batch, codes, retries, bad_results, round, retry_range,
                 last_job, pool, limit, config_read>>

\* whether the exit-code loop calls retention_policy for exit code p
RetentionDue(p) ==
  /\ args.action = "backup"
  /\ IF p # 0 THEN args.retention # <<>> /\ args.skip_err
     ELSE args.retention # <<>>

\* a variant of the list of failed commands that keeps only the errors and
\* leaves the partial transfers (23, 24) out
necessaries_errors(rs, p, command) ==
  IF p \notin {0, 23, 24} THEN Append(rs, command) ELSE rs

\* the list necessaries_retries after the exit code p of command is read:
\* the command is kept when p != 0
necessaries_retries(rs, p, command) ==
  IF p # 0 THEN Append(rs, command) ELSE rs

\* one iteration of `for p, command, plog in zip(jobs, commands, logs)`:
\* for action "backup", "end" and "status" are written to plog["id"] and
\* retention_policy runs for plog["hostname"] (the process ends there when
\* it raises); a failed command is kept for the retry
Collect(locked) ==
  /\ pc = "collect"
  /\ jidx <= Len(codes)
  /\ LET p == codes[jidx]
         command == batch[jidx]
         plog == logs[jidx]
         dry == args.dry_run
         c1 == write_catalog(catalog, dry, plog.id, "end", time_for_log(now))
         c2 == IF args.action = "backup"
               THEN write_catalog(c1, dry, plog.id, "status", p)
               ELSE catalog
         rp == retention_policy(plog.hostname, c2, fs, args.retention, dry,
                                now, locked)
     IN /\ IF RetentionDue(p)
           THEN /\ catalog' = rp.catalog
                /\ fs' = rp.fs
                /\ pc' = IF rp.raised THEN "fatal" ELSE pc
           ELSE /\ locked = {}
                /\ catalog' = c2
                /\ fs' = fs
                /\ pc' = pc
        /\ retries' = necessaries_retries(retries, p, command)
        /\ last_job' = [cmd_id |-> command.id, cmd_host |-> command.host,
                        rec_id |-> plog.id, rec_host |-> plog.hostname,
                        code |-> p,
                        ret_host |-> IF RetentionDue(p) THEN plog.hostname ELSE ""]
  /\ jidx' = jidx + 1
  /\ UNCHANGED poolvars
  /\ UNCHANGED <<now, nextid, args, hidx, cmds, logs, ssh_check, batch,
                 codes, bad_results, round, retry_range, jobs>>

\* a variant of the loop bound that admits one more round
more_rounds_inclusive(k, n) == k <= n

\* `for _ in range(n)`: after k iterations there is another one
more_rounds(k, n) == k < n

\* run_in_parallel returns necessaries_retries to main, which decides on
\* the next retry round: `if args.retry and bad_results: for _ in
\* range(args.retry): ... if not bad_results: break; args.retry -= 1`
RoundEnd ==
  /\ pc = "collect"
  /\ jidx > Len(codes)
  /\ bad_results' = retries
  /\ IF round = 0
     THEN IF args.retry # 0 /\ retries # <<>>
          THEN /\ retry_range' = args.retry
               /\ round' = 1
               /\ batch' = retries
               /\ pc' = "dispatch"
               /\ UNCHANGED args
          ELSE /\ pc' = "done"
               /\ UNCHANGED <<retry_range, round, batch, args>>
     ELSE IF retries = <<>>
          THEN /\ pc' = "done"
               /\ UNCHANGED <<retry_range, round, batch, args>>
          ELSE /\ args' = [args EXCEPT !.retry = @ - 1]
               /\ IF more_rounds(round, retry_range)
                  THEN /\ round' = round + 1
                       /\ batch' = retries
                       /\ pc' = "dispatch"
                       /\ UNCHANGED retry_range
                  ELSE /\ pc' = "done"
                       /\ UNCHANGED <<retry_range, round, batch>>
  /\ UNCHANGED poolvars
  /\ UNCHANGED <<catalog, fs, now, nextid, hidx, cmds, logs, ssh_check,
                 codes, jidx, retries, last_job, jobs>>

\* the process exits
EndRun ==
  /\ pc \in {"done", "fatal"}
  /\ pc' = "idle"
  /\ args' = NoArgs
  /\ hidx' = 0
  /\ cmds' = <<>>
  /\ logs' = <<>>
  /\ ssh_check' = FALSE
  /\ batch' = <<>>
  /\ codes' = <<>>
  /\ jidx' = 0
  /\ retries' = <<>>
  /\ bad_results' = <<>>
  /\ round' = 0
  /\ retry_range' = 0
  /\ last_job' = NoJob
  /\ jobs' = <<>>
  /\ pool' = <<>>
  /\ limit' = 0
  /\ config_read' = <<PyNone>>
  /\ UNCHANGED <<catalog, fs, now, nextid>>

(* ----------------------------- bb archive ------------------------------ *)
\* main, action "archive": archive_policy over the whole catalog (the
\* process ends with a traceback when it raises)
Archive(days, dry, dest_exists, locked, zipfail) ==
  /\ pc = "idle"
  /\ LET ap == archive_policy(catalog, fs, days, dry, dest_exists, now,
                              locked, zipfail)
     IN /\ catalog' = ap.catalog
        /\ fs' = ap.fs
        /\ pc' = IF ap.raised THEN "fatal" ELSE pc
  /\ UNCHANGED <<now, nextid, runvars>>

(* ----------------------------- bb config ------------------------------- *)
\* the first 8 characters of a backup id: the low bits of its time stamp
IdPrefixes == 2

\* (a section named by 8 characters q alone has the id -(q + 1))
Prefix8(bid) == IF bid < 0 THEN -bid - 1 ELSE bid % IdPrefixes

\* what the user types as a backup id: 8 characters, or a whole id
BckIds ==
  {[short |-> TRUE, v |-> q] : q \in 0..(IdPrefixes - 1)}
    \cup {[short |-> FALSE, v |-> i] : i \in 1..MaxId}

\* utility.get_bckid: the index of the section found, 0 for None
get_bckid(config, bckid) ==
  LET pre == {i \in DOMAIN config : Prefix8(config[i].id) = bckid.v}
  IN IF bckid.short /\ pre # {} THEN Min(pre)
     ELSE IF ~bckid.short /\ has_section(config, bckid.v)
          THEN IndexOf(config, bckid.v)
          ELSE 0

Gone(files, r) == r.path = <<>> \/ r.path \notin files

\* config --init: the sections whose folder is gone leave the catalog
init_catalog(config, files) == SelectSeq(config, LAMBDA r : ~Gone(files, r))

InitCatalog(dry, confirm) ==
  /\ pc = "idle"
  /\ catalog' = IF confirm THEN init_catalog(catalog, fs) ELSE catalog
  /\ UNCHANGED <<fs, now, nextid, pc, runvars>>

\* the loop of delete_host: a section of the host leaves the catalog when
\* its folder is gone or cleanup(path, date, 0) deletes it; st.raised: a
\* config.get without fallback has raised NoOptionError (the name of any
\* section, the path or the timestamp of a section of the host)
RECURSIVE delete_host_loop(_, _, _, _)
delete_host_loop(i, st, config, e) ==
  IF i > Len(config) \/ st.raised THEN st
  ELSE LET r == config[i]
           c == cleanup(st.fs, e.locked, e.now, r.path, r.timestamp, 0)
       IN delete_host_loop(i + 1,
            IF r.name = "" THEN [st EXCEPT !.raised = TRUE]
            ELSE IF r.name # e.host THEN st
            ELSE IF r.path = <<>> THEN [st EXCEPT !.raised = TRUE]
            ELSE IF Gone(st.fs, r)
                 THEN [st EXCEPT !.catalog = remove_section(@, r.id)]
            ELSE IF r.timestamp = <<>> THEN [st EXCEPT !.raised = TRUE]
                 ELSE [catalog |-> IF c.code = 0
                                   THEN remove_section(st.catalog, r.id)
                                   ELSE st.catalog,
                       fs |-> c.fs,
                       raised |-> FALSE],
            config, e)

\* config --delete-host, all of it under `if utility.confirm(...)`: the
\* loop (the process ends with a traceback when it raises), then rmtree of
\* the host's root folder (which raises before the catalog is written when
\* a folder is locked, having deleted the folders in `partial`), then the
\* catalog is written
DeleteHost(host, dry, confirm, locked, partial) ==
  /\ pc = "idle"
  /\ LET st == delete_host_loop(1, [catalog |-> catalog, fs |-> fs,
                                    raised |-> FALSE], catalog,
                                [host |-> host, now |-> now, locked |-> locked])
         under == {f \in st.fs : f[1] = host}
     IN IF ~confirm
        THEN /\ locked = {} /\ partial = {}
             /\ UNCHANGED <<catalog, fs, pc>>
        ELSE IF st.raised
        THEN /\ partial = {}
             /\ fs' = st.fs
             /\ catalog' = catalog
             /\ pc' = "fatal"
        ELSE IF under \cap locked = {}
        THEN /\ partial = {}
             /\ fs' = st.fs \ under
             /\ catalog' = st.catalog
             /\ pc' = pc
        ELSE /\ partial \subseteq under \ locked
             /\ fs' = st.fs \ partial
             /\ catalog' = catalog
             /\ pc' = pc
  /\ UNCHANGED <<now, nextid, runvars>>

\* config --delete-backup
delete_backup(config, files, bckid, confirm, locked, t) ==
  LET i == get_bckid(config, bckid)
  IN IF ~confirm \/ i = 0 THEN [catalog |-> config, fs |-> files]
     ELSE IF Gone(files, config[i])
          THEN [catalog |-> remove_section(config, config[i].id), fs |-> files]
          ELSE LET c == cleanup(files, locked, t, config[i].path,
                                config[i].timestamp, 0)
               IN [catalog |-> IF c.code = 0
                               THEN remove_section(config, config[i].id)
                               ELSE config,
                   fs |-> c.fs]

DeleteBackup(bckid, dry, confirm, locked) ==
  /\ pc = "idle"
  /\ LET db == delete_backup(catalog, fs, bckid, confirm, locked, now)
     IN /\ catalog' = db.catalog
        /\ fs' = db.fs
  /\ UNCHANGED <<now, nextid, pc, runvars>>

\* config --clean: every option that is missing gets a default value.  A
\* section without path is removed and the next config.set on it raises
\* NoSectionError, before the catalog file is written.
clean_section(r, t) ==
  [r EXCEPT !.type = IF @ = "" THEN "incremental" ELSE @,
            !.name = IF @ = "" THEN "default" ELSE @,
            !.os = IF @ = "" THEN "unix" ELSE @,
            !.timestamp = IF @ = <<>> THEN time_for_log(t) ELSE @,
            !.start = IF @ = <<>> THEN time_for_log(t) ELSE @,
            !.end = IF @ = <<>> THEN time_for_log(t) ELSE @,
            !.status = IF @ = -1 THEN 0 ELSE @]

\* clean_catalog raises NoSectionError: a section without path
clean_catalog_raises(config) == \E i \in DOMAIN config : config[i].path = <<>>

clean_catalog(config, t) ==
  IF clean_catalog_raises(config)
  THEN config
  ELSE [i \in DOMAIN config |-> clean_section(config[i], t)]

\* main, config --clean (the process ends with a traceback when
\* clean_catalog raises)
CleanCatalog(dry) ==
  /\ pc = "idle"
  /\ catalog' = clean_catalog(catalog, now)
  /\ pc' = IF clean_catalog_raises(catalog) THEN "fatal" ELSE pc
  /\ UNCHANGED <<fs, now, nextid, runvars>>

(* ------------------------------ bb export ------------------------------ *)
\* the name of the section that write_catalog(..., args.id, ...) writes: the
\* characters of args.id as they were typed
SectionName(bckid) == IF bckid.short THEN -(bckid.v + 1) ELSE bckid.v

\* main, action "export", up to the call of run_in_parallel: with --all the
\* whole catalog folder is the source; else the section of args.id is
\* looked up (exit when there is none), its folder is the source when it
\* exists, and with --cut the option cleaned is written under args.id
Export(bckid, all, cut, dry) ==
  /\ pc = "idle"
  /\ args' = [NoArgs EXCEPT !.action = "export", !.dry_run = dry]
  /\ LET i == get_bckid(catalog, bckid)
         found == ~all /\ i # 0 /\ ~Gone(fs, catalog[i])
     IN IF ~all /\ i = 0
        THEN /\ pc' = "fatal"
             /\ UNCHANGED <<catalog, cmds, logs, batch, jobs>>
        ELSE /\ logs' = <<[id |-> 0,
                           hostname |-> IF all THEN "all_backup"
                                        ELSE catalog[i].name]>>
             /\ cmds' = <<[id |-> 1, host |-> logs'[1].hostname,
                           src |-> IF found THEN catalog[i].path ELSE <<>>,
                           cut |-> cut]>>
             /\ catalog' = IF found /\ cut
                           THEN write_catalog(catalog, dry, SectionName(bckid),
                                              "cleaned", TRUE)
                           ELSE catalog
             /\ batch' = cmds'
             /\ jobs' = <<[id |-> 1, runs |-> 0, last |-> -1]>>
             /\ pc' = "dispatch"
  /\ UNCHANGED poolvars
  /\ UNCHANGED <<fs, now, nextid, hidx, ssh_check, codes, jidx, retries,
                 bad_results, round, retry_range, last_job>>

(* ------------------------------ behaviour ------------------------------ *)
\* a new run of `bb backup`, its command line drawn from the given sets; an
\* id given to --start-from is none that new_id() hands out later
BackupRun(idcap, lists, modes, drys, rets, retrys, sfroms) ==
  /\ nextid <= idcap
  /\ \E hostnames \in lists, mode \in modes, dry \in drys,
        retention \in rets, skip_err \in BOOLEAN, retry \in retrys,
        sfrom \in sfroms :
       /\ sfrom < nextid
       /\ StartBackup(hostnames, mode, dry, retention, skip_err, retry, sfrom)

ComposeStep(idcap) ==
  \E res \in {"ok", "ssh_fail", "conf_fail"} : ComposeHost(res, idcap)

DispatchStep(exits) == \E cs \in [1..ZipLen(batch, logs) -> exits] : Dispatch(cs)

CollectStep == \E locked \in SUBSET fs : Collect(locked)

ArchiveRun(maxdays) ==
  \E days \in 0..maxdays, dry \in BOOLEAN, dest_exists \in BOOLEAN,
     locked \in SUBSET fs, zipfail \in SUBSET fs :
    Archive(days, dry, dest_exists, locked, zipfail)

InitCatalogRun == \E dry \in BOOLEAN, confirm \in BOOLEAN : InitCatalog(dry, confirm)

DeleteHostRun ==
  \E host \in Hosts, dry \in BOOLEAN, confirm \in BOOLEAN,
     locked \in SUBSET fs, partial \in SUBSET fs :
    DeleteHost(host, dry, confirm, locked, partial)

DeleteBackupRun ==
  \E bckid \in BckIds, dry \in BOOLEAN, confirm \in BOOLEAN,
     locked \in SUBSET fs :
    DeleteBackup(bckid, dry, confirm, locked)

CleanCatalogRun == \E dry \in BOOLEAN : CleanCatalog(dry)

\* the catalog over its life: backups of one host at a time, in every mode,
\* with retention, and the archive and config actions between them
Next ==
  \/ Tick(MaxTime)
  \/ BackupRun(MaxId, [1..1 -> Hosts], Modes, BOOLEAN, Retentions, {0}, {0})
  \/ ComposeStep(MaxId)
  \/ StartJobs
  \/ DispatchStep({0, 1})
  \/ CollectStep
  \/ RoundEnd
  \/ EndRun
  \/ ArchiveRun(MaxDays)
  \/ InitCatalogRun
  \/ DeleteHostRun
  \/ DeleteBackupRun
  \/ CleanCatalogRun

Spec == Init /\ [][Next]_vars

\* the scheduler: batches of full backups over a list of hosts, with every
\* retry budget and every exit code
NextBatch ==
  \/ Tick(MaxTime)
  \/ BackupRun(MaxId, HostLists, {"full"}, {FALSE}, {<<>>, <<0>>}, 0..MaxRetry, {0})
  \/ ComposeStep(MaxId)
  \/ StartJobs
  \/ DispatchStep(ExitCodes)
  \/ CollectStep
  \/ RoundEnd
  \/ EndRun

SpecBatch == Init /\ [][NextBatch]_vars

\* the backup chain of one host: ChainIds backups in every mode over
\* ChainTime seconds, with retention and archive in between
NextChain ==
  \/ Tick(ChainTime)
  \/ BackupRun(ChainIds, {<<"h1">>}, Modes, {FALSE}, {<<>>, <<0>>}, {0}, {0})
  \/ ComposeStep(ChainIds)
  \/ StartJobs
  \/ DispatchStep({0})
  \/ CollectStep
  \/ RoundEnd
  \/ EndRun
  \/ ArchiveRun(0)

SpecChain == Init /\ [][NextChain]_vars

\* backups that start from a given backup id: an id of the catalog, or an
\* id that is no section of it (-1 is an id new_id() never hands out)
NextFrom ==
  \/ Tick(MaxTime)
  \/ BackupRun(MaxId, HostLists, Modes, BOOLEAN, {<<>>}, {0}, -1..MaxId)
  \/ ComposeStep(MaxId)
  \/ StartJobs
  \/ DispatchStep({0, 1})
  \/ CollectStep
  \/ RoundEnd
  \/ EndRun

SpecFrom == Init /\ [][NextFrom]_vars

\* the retention scenario: full and incremental backups of one host, each in
\* a minute of its own, with --retention DAYS 2, on a storage
\* where every folder can be deleted
NextScenario ==
  \/ Tick(ScenarioTime)
  \/ BackupRun(ChainIds, {<<"h1">>}, {"full", "incremental"}, {FALSE},
               {<<>>, <<0, 2>>}, {0}, {0})
  \/ ComposeStep(ChainIds)
  \/ StartJobs
  \/ DispatchStep({0})
  \/ Collect({})
  \/ RoundEnd
  \/ EndRun

SpecScenario == Init /\ [][NextScenario]_vars

(* ------------------------------ bb restore ----------------------------- *)
\* a path is the sequence of its characters
OsNames == {"unix", "windows", "macos"}

\* the keys of the dictionary of map_dict_folder, in insertion order
FolderKeys == <<"user", "config", "application", "system", "log">>

map_dict_folder(os_name) ==
  CASE os_name = "unix" ->
       [user |-> <<"/", "h", "o", "m", "e">>,
        config |-> <<"/", "e", "t", "c">>,
        application |-> <<"/", "u", "s", "r">>,
        system |-> <<"/">>,
        log |-> <<"/", "v", "a", "r", "/", "l", "o", "g">>]
    [] os_name = "windows" ->
       [user |-> <<"/", "c", "y", "g", "d", "r", "i", "v", "e", "/", "c", "/", "U", "s", "e", "r", "s">>,
        config |-> <<"/", "c", "y", "g", "d", "r", "i", "v", "e", "/", "c", "/", "P", "r", "o", "g", "r", "a", "m", "D", "a", "t", "a">>,
        application |-> <<"/", "c", "y", "g", "d", "r", "i", "v", "e", "/", "c", "/", "P", "r", "o", "g", "r", "a", "m", " ", "F", "i", "l", "e", "s">>,
        system |-> <<"/", "c", "y", "g", "d", "r", "i", "v", "e", "/", "c">>,
        log |-> <<"/", "c", "y", "g", "d", "r", "i", "v", "e", "/", "c", "/", "W", "i", "n", "d", "o", "w", "s", "/", "S", "y", "s", "t", "e", "m", "3", "2", "/", "w", "i", "n", "e", "v", "t">>]
    [] os_name = "macos" ->
       [user |-> <<"/", "U", "s", "e", "r", "s">>,
        config |-> <<"/", "p", "r", "i", "v", "a", "t", "e", "/", "e", "t", "c">>,
        application |-> <<"/", "A", "p", "p", "l", "i", "c", "a", "t", "i", "o", "n", "s">>,
        system |-> <<"/">>,
        log |-> <<"/", "p", "r", "i", "v", "a", "t", "e", "/", "v", "a", "r", "/", "l", "o", "g">>]
    [] OTHER -> <<>>

\* Python's `a in b` on strings: a is a substring of b
IsIn(a, b) ==
  \E i \in 0..(Len(b) - Len(a)) : SubSeq(b, i + 1, i + Len(a)) = a

\* os.path.basename: what follows the last "/"
basename(p) ==
  LET slashes == {i \in DOMAIN p : p[i] = "/"}
  IN IF slashes = {} THEN p ELSE SubSeq(p, Max(slashes) + 1, Len(p))

\* os.path.join of two components
path_join(a, b) ==
  IF b # <<>> /\ b[1] = "/" THEN b
  ELSE IF a = <<>> \/ a[Len(a)] = "/" THEN a \o b
       ELSE a \o <<"/">> \o b

\* "restore_{0}".format(utility.time_for_folder())
restore_folder(t) ==
  <<"r", "e", "s", "t", "o", "r", "e", "_">>
    \o <<ToString(time_for_folder(t)[1]), "_", ToString(time_for_folder(t)[2])>>

\* compose_restore_src_dst: the loop over the keys of b_folders assigns
\* rsrc and rdst in every iteration; the values of the last one are returned
RECURSIVE restore_loop(_, _, _, _, _, _, _)
restore_loop(k, sd, b_folders, r_folders, restore_path, root_dir, t) ==
  IF k > Len(FolderKeys) THEN sd
  ELSE LET key == FolderKeys[k]
           nxt == IF IsIn(restore_path, b_folders[key])
                  THEN <<path_join(restore_path, <<"*">>), r_folders[key]>>
                  ELSE IF root_dir # <<>>
                       THEN <<restore_path,
                              IF root_dir[1] # "/"
                              THEN path_join(<<"/">>, root_dir)
                              ELSE root_dir>>
                       ELSE <<restore_path,
                              path_join(r_folders["system"], restore_folder(t))>>
       IN restore_loop(k + 1, nxt, b_folders, r_folders, restore_path,
                       root_dir, t)

compose_restore_src_dst(backup_os, restore_os, restore_path, root_dir, t) ==
  LET sd == restore_loop(1, <<>>, map_dict_folder(backup_os),
                         map_dict_folder(restore_os), restore_path, root_dir, t)
  IN IF sd # <<>> /\ sd[1] # <<>> /\ sd[2] # <<>> THEN sd ELSE <<>>

\* the top-level folder that a backup of the root of a category leaves in
\* the snapshot: rsync copies the directory under its own name
SnapshotFolder(os_name, key) == basename(map_dict_folder(os_name)[key])

\* the directories found in a snapshot: those of the categories, and one of
\* a custom-data backup
SnapshotFolders ==
  {SnapshotFolder(o, FolderKeys[k]) : o \in OsNames, k \in DOMAIN FolderKeys}
    \cup {<<"d", "a", "t", "a">>}

\* the values of --root-dir: absent, relative, absolute
RootDirs == {<<>>, <<"t">>, <<"/", "t">>}

\* main, action "restore", for one folder rf of the snapshot of a backup
\* made on backup_os: the source and destination of the restore command
Restore(backup_os, restore_os, rf, root_dir) ==
  /\ pc = "idle"
  /\ args' = [NoArgs EXCEPT !.action = "restore"]
  /\ cmds' = <<[bos |-> backup_os, ros |-> restore_os, rf |-> rf,
               root_dir |-> root_dir,
               src_dst |-> compose_restore_src_dst(backup_os, restore_os, rf,
                                                   root_dir, now)]>>
  /\ pc' = "done"
  /\ UNCHANGED poolvars
  /\ UNCHANGED <<catalog, fs, now, nextid, hidx, logs, ssh_check, batch, codes,
                 jidx, retries, bad_results, round, retry_range, last_job, jobs>>

RestoreRun ==
  \E backup_os \in OsNames, restore_os \in OsNames, rf \in SnapshotFolders,
     root_dir \in RootDirs :
    Restore(backup_os, restore_os, rf, root_dir)

\* str.lower on a line typed by the user
Lower(line) ==
  CASE line = "Y" -> "y"
    [] line = "N" -> "n"
    [] OTHER -> line

\* a variant of utility.confirm whose default answer is yes
RECURSIVE confirm_default_yes(_, _)
confirm_default_yes(lines, force) ==
  IF force THEN TRUE
  ELSE IF lines = <<>> THEN FALSE
  ELSE IF Lower(Head(lines)) \in {"y", "n"} THEN Lower(Head(lines)) = "y"
  ELSE IF Head(lines) = "" THEN TRUE
  ELSE confirm_default_yes(Tail(lines), force)

\* utility.confirm(message, default="n", force): TRUE under force without a
\* prompt; else the lines typed are read until one is y or n (in either
\* case) or empty, the empty line standing for the default n.  (When the
\* input ends before that, input() raises EOFError: no transfer is added.)
RECURSIVE confirm(_, _)
confirm(lines, force) ==
  IF force THEN TRUE
  ELSE IF lines = <<>> THEN FALSE
  ELSE IF Lower(Head(lines)) \in {"y", "n"} THEN Lower(Head(lines)) = "y"
  ELSE IF Head(lines) = "" THEN FALSE
  ELSE confirm(Tail(lines), force)

\* what the user types at one prompt, up to the line that decides
Typings == {<<"y">>, <<"n">>, <<"">>, <<"Y">>, <<"x", "y">>, <<"x", "">>}

\* `for rf in rfolders`: the commands of the folders 1..k, in order; a
\* folder gets a command when compose_restore_src_dst returns a pair and
\* utility.confirm returns True
RECURSIVE restore_cmds(_, _, _, _, _, _, _)
restore_cmds(k, rhost, bos, ros, rfolders, force, typed) ==
  IF k = 0 THEN <<>>
  ELSE LET before == restore_cmds(k - 1, rhost, bos, ros, rfolders, force, typed)
           src_dst == compose_restore_src_dst(bos, ros, basename(rfolders[k]),
                                              <<>>, 0)
       IN IF src_dst # <<>> /\ confirm(typed[k], force)
          THEN Append(before, [id |-> k, host |-> rhost, rf |-> rfolders[k],
                               src |-> src_dst[1]])
          ELSE before

\* main, action "restore", from the loop over the folders of the snapshot
\* to the call of run_in_parallel: log_args is appended to logs for every
\* folder, a command is added to cmds for the folders confirmed.  (The
\* fields rf, force and typed of a log entry are history: the folder of the
\* iteration, args.force and what the user typed at its prompt.)
RestoreFolders(rhost, bos, ros, rfolders, force, typed) ==
  /\ pc = "idle"
  /\ args' = [NoArgs EXCEPT !.action = "restore"]
  /\ logs' = [k \in DOMAIN rfolders |->
                [id |-> 0, hostname |-> rhost, rf |-> rfolders[k],
                 force |-> force, typed |-> typed[k]]]
  /\ cmds' = restore_cmds(Len(rfolders), rhost, bos, ros, rfolders, force, typed)
  /\ batch' = cmds'
  /\ jobs' = [i \in DOMAIN cmds' |-> [id |-> cmds'[i].id, runs |-> 0, last |-> -1]]
  /\ pc' = "dispatch"
  /\ UNCHANGED poolvars
  /\ UNCHANGED <<catalog, fs, now, nextid, hidx, ssh_check, codes, jidx,
                 retries, bad_results, round, retry_range, last_job>>

\* the folder lists of a snapshot: one or two folders, each once
FolderLists(folders) ==
  {l \in UNION {[1..n -> folders] : n \in 1..2} :
     \A i, j \in DOMAIN l : l[i] = l[j] => i = j}

\* folders of a snapshot: of the categories user and log of a unix backup,
\* and of a custom-data backup
SomeFolders == {SnapshotFolder("unix", "user"), SnapshotFolder("unix", "log"),
                <<"d", "a", "t", "a">>}

RestoreFoldersRun(oses, folders, forces, typings) ==
  \E ros \in oses, rfolders \in FolderLists(folders), force \in forces :
    \E typed \in [DOMAIN rfolders -> typings] :
      RestoreFolders("h1", "unix", ros, rfolders, force, typed)

\* the values that reach map_dict_folder as os_name: the three names that
\* --type admits, and what the os option of a section of the catalog file
\* can hold besides them (another name, or nothing)
OsFamilies == OsNames \cup {"linux", ""}

\* `b_folders = map_dict_folder(backup_os)`: the dictionary handed to the
\* caller for os_name
MapDictFolder(os_name) ==
  /\ pc = "idle"
  /\ args' = [NoArgs EXCEPT !.action = "map_dict_folder"]
  /\ cmds' = <<[os_name |-> os_name, folders |-> map_dict_folder(os_name)]>>
  /\ pc' = "done"
  /\ UNCHANGED poolvars
  /\ UNCHANGED <<catalog, fs, now, nextid, hidx, logs, ssh_check, batch, codes,
                 jidx, retries, bad_results, round, retry_range, last_job, jobs>>

MapDictFolderRun == \E os_name \in OsFamilies : MapDictFolder(os_name)

\* restores of the folders of a snapshot, over time
NextRestore ==
  \/ Tick(MaxTime)
  \/ RestoreRun
  \/ MapDictFolderRun
  \/ EndRun

SpecRestore == Init /\ [][NextRestore]_vars

ExportRun ==
  \E bckid \in BckIds, all \in BOOLEAN, cut \in BOOLEAN, dry \in BOOLEAN :
    Export(bckid, all, cut, dry)

\* the life of the records of one host: full backups with and without
\* retention and retry, archive runs and exports between them
NextMarkers ==
  \/ Tick(MarkersTime)
  \/ BackupRun(MaxId, {<<"h1">>}, {"full"}, {FALSE}, {<<>>, <<0>>}, {0, 1}, {0})
  \/ ComposeStep(MaxId)
  \/ StartJobs
  \/ DispatchStep({0, 1})
  \/ CollectStep
  \/ RoundEnd
  \/ EndRun
  \/ ArchiveRun(MaxDays)
  \/ ExportRun

SpecMarkers == Init /\ [][NextMarkers]_vars

\* full backups of one or two hosts, some of which cannot be reached, some
\* dry runs and some started from an id that the catalog does not hold, and
\* `config --clean` between the runs
NextClean ==
  \/ Tick(MaxTime)
  \/ BackupRun(MaxId, HostLists, {"full"}, BOOLEAN, {<<>>}, {0}, 0..MaxId)
  \/ ComposeStep(MaxId)
  \/ StartJobs
  \/ DispatchStep({0, 1})
  \/ Collect({})
  \/ RoundEnd
  \/ EndRun
  \/ CleanCatalogRun

SpecClean == Init /\ [][NextClean]_vars

\* full backups of one host, and `config --delete-backup` by id or by the
\* first 8 characters of an id, between the runs
NextLookup ==
  \/ Tick(MaxTime)
  \/ BackupRun(ChainIds, {<<"h1">>}, {"full"}, {FALSE}, {<<>>}, {0}, {0})
  \/ ComposeStep(ChainIds)
  \/ StartJobs
  \/ DispatchStep({0})
  \/ Collect({})
  \/ RoundEnd
  \/ EndRun
  \/ DeleteBackupRun

SpecLookup == Init /\ [][NextLookup]_vars

\* backups of one host that start from the backup of a given id, which
\* retention may have cleaned in the meantime
NextBaseline ==
  \/ Tick(MaxTime)
  \/ BackupRun(ChainIds, {<<"h1">>}, {"incremental", "differential"}, {FALSE},
               {<<>>, <<0>>}, {0}, 0..ChainIds)
  \/ ComposeStep(ChainIds)
  \/ StartJobs
  \/ DispatchStep({0})
  \/ Collect({})
  \/ RoundEnd
  \/ EndRun

SpecBaseline == Init /\ [][NextBaseline]_vars

\* full backups of one host that run with --log, a second or more apart
NextLog ==
  \/ Tick(MaxTime)
  \/ BackupRun(ChainIds, {<<"h1">>}, {"full", "incremental"}, {FALSE}, {<<>>},
               {0}, {0})
  \/ ComposeCommandLog(ChainIds)
  \/ TickCompose(MaxTime)
  \/ ComposeMainLog
  \/ StartJobs
  \/ DispatchStep({0, 1})
  \/ Collect({})
  \/ RoundEnd
  \/ EndRun

SpecLog == Init /\ [][NextLog]_vars

\* full backups of one or two hosts with a retention of zero days
NextRetention ==
  \/ Tick(MaxTime)
  \/ BackupRun(ChainIds, HostLists, {"full"}, {FALSE}, {<<0>>}, {0}, {0})
  \/ ComposeStep(ChainIds)
  \/ StartJobs
  \/ DispatchStep({0})
  \/ Collect({})
  \/ RoundEnd
  \/ EndRun

SpecRetention == Init /\ [][NextRetention]_vars

\* backups of one host, some of them dry runs or started from an id that the
\* catalog does not hold, with retention and archive runs between them
NextPartial ==
  \/ Tick(MaxTime)
  \/ BackupRun(ChainIds, {<<"h1">>}, {"full", "incremental"}, BOOLEAN,
               {<<0>>}, {0}, 0..ChainIds)
  \/ ComposeStep(ChainIds)
  \/ StartJobs
  \/ DispatchStep({0})
  \/ Collect({})
  \/ RoundEnd
  \/ EndRun
  \/ ArchiveRun(MaxDays)

SpecPartial == Init /\ [][NextPartial]_vars

\* full backups of one or two hosts and `config --delete-host` between the
\* runs
NextDelete ==
  \/ Tick(MaxTime)
  \/ BackupRun(MaxId, HostLists, {"full"}, {FALSE}, {<<>>}, {0}, {0})
  \/ ComposeStep(MaxId)
  \/ StartJobs
  \/ DispatchStep({0})
  \/ Collect({})
  \/ RoundEnd
  \/ EndRun
  \/ DeleteHostRun

SpecDelete == Init /\ [][NextDelete]_vars

(* ------------------------- the pool of workers ------------------------- *)
PoolCreateStep == \E parallel \in 0..MaxParallel : PoolCreate(parallel)

WorkerStartStep == \E i \in DOMAIN pool : WorkerStart(i)

WorkerExitStep == \E i \in DOMAIN pool, p \in {0, 1} : WorkerExit(i, p)

\* backups of one or two hosts and restores of one or two folders, whose
\* jobs run in a pool of workers beside the controlling process
NextPool ==
  \/ BackupRun(MaxId, HostLists, {"full"}, {FALSE}, {<<>>}, {0, 1}, {0})
  \/ ComposeStep(MaxId)
  \/ StartJobs
  \/ PoolCreateStep
  \/ Submit
  \/ WriteStart
  \/ WorkerStartStep
  \/ WorkerExitStep
  \/ WaitDone
  \/ Collect({})
  \/ RoundEnd
  \/ EndRun
  \/ RestoreFoldersRun({"unix"}, SomeFolders, {TRUE}, {<<"y">>})

SpecPool == Init /\ [][NextPool]_vars

\* restores of one or two folders of a snapshot, each confirmed or declined
\* at its prompt; the commands run in a pool of one worker
NextRestoreRun ==
  \/ RestoreFoldersRun({"unix", "windows"}, SomeFolders, BOOLEAN, Typings)
  \/ PoolCreateStep
  \/ Submit
  \/ WorkerStartStep
  \/ WorkerExitStep
  \/ WaitDone
  \/ Collect({})
  \/ RoundEnd
  \/ EndRun

SpecRestoreRun == Init /\ [][NextRestoreRun]_vars

(* --------------------------- the catalog store ------------------------- *)
\* options that bb writes with write_catalog, each with values it writes
Options ==
  {[key |-> "name", value |-> h] : h \in Hosts}
    \cup {[key |-> "type", value |-> "full"]}
    \cup {[key |-> "start", value |-> time_for_log(now)]}
    \cup {[key |-> "status", value |-> p] : p \in {0, 1}}
    \cup {[key |-> "cleaned", value |-> TRUE]}

\* one call write_catalog(catalog_path, section, key, value) by a process
\* that runs with or without --dry-run
WriteCatalog(dry, section, key, value) ==
  /\ pc = "idle"
  /\ catalog' = write_catalog(catalog, dry, section, key, value)
  /\ UNCHANGED <<fs, now, nextid, pc, runvars>>

WriteCatalogCall ==
  \E dry \in BOOLEAN, section \in 1..MaxId, o \in Options :
    WriteCatalog(dry, section, o.key, o.value)

\* the catalogs that calls of write_catalog build
NextCatalog == WriteCatalogCall

SpecCatalog == Init /\ [][NextCatalog]_vars

(* ------------------------------ claims --------------------------------- *)
Live(r) == ~r.cleaned /\ ~r.archived

\* the records of a host that are neither cleaned nor archived
LiveOf(config, host) ==
  {i \in DOMAIN config : config[i].name = host /\ Live(config[i])}

HasLiveBase(config, host) ==
  \E i \in LiveOf(config, host) : config[i].type \in {"full", "incremental"}

HasLiveFull(config, host) ==
  \E i \in LiveOf(config, host) : config[i].type = "full"

\* a step of the exit-code loop that calls retention_policy
RetentionStep ==
  /\ pc = "collect"
  /\ jidx <= Len(codes)
  /\ jidx' = jidx + 1
  /\ RetentionDue(codes[jidx])

\* C1: retention_policy never cleans the last record of type full or
\* incremental of a host that is neither cleaned nor archived: a host that
\* has such a record before an invocation has one after it.
C1_RetentionKeepsLastBase ==
  [][RetentionStep =>
       \A h \in Hosts : HasLiveBase(catalog, h) => HasLiveBase(catalog', h)]_vars

\* C2: archive_policy never archives the last full backup of a host: a host
\* that has a full record neither cleaned nor archived before an archive run
\* has one after it.
C2_ArchiveKeepsLastFull ==
  [][ArchiveRun(MaxDays) =>
       \A h \in Hosts : HasLiveFull(catalog, h) => HasLiveFull(catalog', h)]_vars

\* C3: no record of the catalog is marked both cleaned and archived.
C3_CleanedXorArchived ==
  \A i \in DOMAIN catalog : ~(catalog[i].cleaned /\ catalog[i].archived)

\* a step of main's host loop that composes a command for `hostname`
Composes(mode) ==
  /\ pc = "compose"
  /\ args.mode = mode
  /\ Len(cmds') = Len(cmds) + 1

ComposedHost == args.hostnames[hidx]

\* the paths of the records of idxs with the greatest timestamp
LatestPaths(config, idxs) ==
  {config[i].path : i \in {j \in idxs :
      \A k \in idxs : string_to_time(config[k].timestamp)
                        <= string_to_time(config[j].timestamp)}}

\* C4: an incremental backup of a host that has a record neither cleaned
\* nor archived links against the path of the most recent such record.
C4_IncrementalBaseline ==
  [][(Composes("incremental") /\ LiveOf(catalog, ComposedHost) # {}) =>
       cmds'[Len(cmds')].link_dest
          \in LatestPaths(catalog, LiveOf(catalog, ComposedHost))]_vars

LiveFullOf(config, host) ==
  {i \in LiveOf(config, host) : config[i].type = "full"}

\* C5: the --link-dest of a differential backup is the path of the most
\* recent full record of the host that is neither cleaned nor archived.
C5_DifferentialBaseline ==
  [][(Composes("differential") /\ cmds'[Len(cmds')].link_dest # <<>>) =>
       cmds'[Len(cmds')].link_dest
          \in LatestPaths(catalog, LiveFullOf(catalog, ComposedHost))]_vars

\* C6: an incremental (differential) backup of a host without a record
\* (without a full record) that is neither cleaned nor archived falls back
\* to full: the record's type is full and the command has no --link-dest.
C6_FallbackToFull ==
  [][(\/ Composes("incremental") /\ LiveOf(catalog, ComposedHost) = {}
      \/ Composes("differential") /\ LiveFullOf(catalog, ComposedHost) = {}) =>
       /\ cmds'[Len(cmds')].link_dest = <<>>
       /\ Section(catalog', cmds'[Len(cmds')].id).type = "full"]_vars

\* the retry budget N of the run
RetryBudget == IF round = 0 THEN args.retry ELSE retry_range

\* C7: when the run is over, a job that failed fewer than N times and then
\* succeeded is not in the failed set and the status of its record is 0.
C7_RetryConverges ==
  (pc = "done" /\ ~args.dry_run) =>
    \A i \in DOMAIN jobs :
      (jobs[i].runs >= 1 /\ jobs[i].last = 0 /\ jobs[i].runs - 1 < RetryBudget) =>
        /\ \A k \in DOMAIN bad_results : bad_results[k].id # jobs[i].id
        /\ Section(catalog, jobs[i].id).status = 0

\* C8: the end and status writes of a job go to the record and the host of
\* the backup that composed the job's command.
C8_RetryWritesOwnRecord ==
  /\ last_job.rec_id = last_job.cmd_id
  /\ last_job.rec_host = last_job.cmd_host

\* a step of an action that runs with --dry-run
DryRunStep ==
  \/ pc # "idle" /\ args.dry_run /\ pc' # "idle"
  \/ \E days \in 0..MaxDays, dest_exists \in BOOLEAN,
        locked \in SUBSET fs, zipfail \in SUBSET fs :
       Archive(days, TRUE, dest_exists, locked, zipfail)
  \/ \E answer \in BOOLEAN : InitCatalog(TRUE, answer)
  \/ \E host \in Hosts, answer \in BOOLEAN,
        locked \in SUBSET fs, partial \in SUBSET fs :
       DeleteHost(host, TRUE, answer, locked, partial)
  \/ \E bckid \in BckIds, answer \in BOOLEAN, locked \in SUBSET fs :
       DeleteBackup(bckid, TRUE, answer, locked)
  \/ CleanCatalog(TRUE)

\* C9: with dry-run set, no action changes the catalog or deletes a backup
\* folder.
C9_DryRunChangesNothing ==
  [][DryRunStep => (catalog' = catalog /\ fs \subseteq fs')]_vars

\* C10: when the batch is over, the job of every host that passed its
\* checks (every composed command) has been executed.
C10_OtherHostsProceed ==
  pc = "done" => \A i \in DOMAIN jobs : jobs[i].runs >= 1

\* C11: a backup run whose --start-from id is no section of the catalog
\* aborts and leaves the catalog as it was: the step that aborts the run
\* writes nothing, and nothing was composed before it.
C11_UnknownStartFromWritesNothing ==
  [][(pc = "compose" /\ pc' = "fatal") =>
       (catalog' = catalog /\ cmds = <<>>)]_vars

\* the last min(n, Len(s)) elements of s
LastIds(s, n) ==
  {s[i] : i \in {j \in DOMAIN s : j > Len(s) - n}}

\* C12: in an invocation of retention_policy with a minimum count, the
\* exemption set is exactly the last min(min_count, n) ids of the host in
\* catalog order (empty for 0), and no exempt record is cleaned by it.
C12_ExemptionSet ==
  [][(RetentionStep /\ Len(args.retention) = 2) =>
       LET host == logs[jidx].hostname
           exempt == SeqRange(backup_list(catalog, host, args.retention))
       IN /\ exempt = LastIds(list_backup(catalog, host), args.retention[2])
          /\ \A bid \in exempt :
               Section(catalog', bid).cleaned = Section(catalog, bid).cleaned]_vars

\* the catalog of the scenario: the host's records are, in this order, a
\* full and two incrementals, all live, each in a folder of its own, and
\* all older than the retention window at time t
ScenarioCatalog(config, files, host, days, t) ==
  /\ Len(config) = 3
  /\ config[1].type = "full"
  /\ config[2].type = "incremental"
  /\ config[3].type = "incremental"
  /\ \A i \in 1..3 : /\ config[i].name = host
                      /\ Live(config[i])
                      /\ config[i].path \in files
                      /\ string_to_time(config[i].timestamp) < t - days * SecsPerDay
  /\ \A i, j \in 1..3 : config[i].path = config[j].path => i = j

\* an invocation of retention_policy on the scenario, with min_count 2
ScenarioStep ==
  /\ RetentionStep
  /\ Len(args.retention) = 2
  /\ args.retention[2] = 2
  /\ ScenarioCatalog(catalog, fs, logs[jidx].hostname, args.retention[1], now)

\* C13 (as the code behaves): on the scenario, retention_policy cleans the
\* full record and leaves both incrementals, the two most recent records,
\* not cleaned.
C13_ScenarioCleansFull ==
  [][ScenarioStep =>
       /\ catalog'[1].cleaned /\ catalog'[1].path \notin fs'
       /\ ~catalog'[2].cleaned /\ catalog'[2].path \in fs'
       /\ ~catalog'[3].cleaned /\ catalog'[3].path \in fs']_vars

\* C13 (as stated): on the scenario, retention_policy cleans the oldest
\* incremental and leaves the full and the newest incremental not cleaned.
C13_ScenarioCleansOldestIncremental ==
  [][ScenarioStep =>
       /\ ~catalog'[1].cleaned
       /\ catalog'[2].cleaned
       /\ ~catalog'[3].cleaned]_vars

\* C13: retention_policy has run on the scenario
C13_ScenarioRan ==
  /\ pc = "collect"
  /\ jidx > Len(codes)
  /\ Len(args.retention) = 2
  /\ args.retention[2] = 2
  /\ last_job.rec_id = 3
  /\ Len(catalog) = 3
  /\ catalog[1].type = "full" /\ catalog[1].cleaned
  /\ catalog[2].type = "incremental" /\ ~catalog[2].cleaned
  /\ catalog[3].type = "incremental" /\ ~catalog[3].cleaned
  /\ \A i \in 1..3 : string_to_time(catalog[i].timestamp) < now
  /\ \A i, j \in 1..3 : catalog[i].path = catalog[j].path => i = j

\* C14: retention_policy and archive_policy never delete the folder of a
\* record of type mirror, and never mark such a record cleaned or archived.
C14_MirrorExempt ==
  [][(RetentionStep \/ ArchiveRun(MaxDays)) =>
       \A i \in DOMAIN catalog :
         (catalog[i].type = "mirror" /\ Live(catalog[i])
            /\ catalog[i].path \in fs) =>
           (catalog[i].path \in fs' /\ Live(catalog'[i]))]_vars

\* C15: mirror backups of one host share one record: the catalog never
\* holds two records of type mirror for the same host.
C15_SingleMirrorRecord ==
  \A i, j \in DOMAIN catalog :
    (catalog[i].type = "mirror" /\ catalog[j].type = "mirror"
       /\ catalog[i].name = catalog[j].name) => i = j

\* C16: for backup OS A, restore OS B and category C, the restore of the
\* top-level snapshot folder of A's root for C (a folder with a name: the
\* root "/" leaves none) goes to B's root for C.
C16_TaxonomyRoundTrip ==
  (pc = "done" /\ args.action = "restore") =>
    \A k \in DOMAIN FolderKeys :
      (cmds[1].rf # <<>>
         /\ cmds[1].rf = SnapshotFolder(cmds[1].bos, FolderKeys[k])) =>
        /\ cmds[1].src_dst # <<>>
        /\ cmds[1].src_dst[2] = map_dict_folder(cmds[1].ros)[FolderKeys[k]]

\* the jobs of the batch read so far whose exit code is not 0
FailedSoFar == {k \in 1..(jidx - 1) : codes[k] # 0}

\* C17: run_in_parallel returns exactly the jobs of the batch whose exit
\* code is not 0: while the exit codes are read, and when the loop is over,
\* the list of failed commands holds each job read with a non-zero code
\* once, in order, and no job read with code 0; every job of the batch has
\* an exit code.
C17_ReturnsFailedJobs ==
  pc = "collect" =>
    /\ Len(codes) = Len(batch)
    /\ Len(retries) = Cardinality(FailedSoFar)
    /\ \A k \in FailedSoFar :
         retries[Cardinality({j \in FailedSoFar : j <= k})] = batch[k]

\* C17: a batch with a success, and a partial transfer has been returned
C17_MixedBatchReturned ==
  /\ pc = "collect"
  /\ jidx > Len(codes)
  /\ Len(codes) = 2
  /\ codes[1] = 23
  /\ codes[2] = 0
  /\ retries = <<batch[1]>>

\* C18: after a job is read, retention_policy has been invoked for the
\* job's host if and only if retention is configured and the exit code is 0
\* or skip_err is set; otherwise it has not been invoked at all.
C18_RetentionTrigger ==
  last_job.cmd_id # 0 =>
    IF args.retention # <<>> /\ (last_job.code = 0 \/ args.skip_err)
    THEN last_job.ret_host = last_job.cmd_host
    ELSE last_job.ret_host = ""

\* C19: a job runs at most 1 + N times for the retry budget N; a round
\* that ends starts another round only with the jobs that failed in it, and
\* none when no job failed.
C19_RetryBounded ==
  /\ [](\A i \in DOMAIN jobs : jobs[i].runs <= 1 + RetryBudget)
  /\ [][(pc = "collect" /\ pc' # "collect") =>
          /\ pc' \in {"dispatch", "done"}
          /\ pc' = "dispatch" => (retries # <<>> /\ batch' = retries)
          /\ retries = <<>> => pc' = "done"]_vars

\* C19: a job has failed in every round and has used the whole budget
C19_BudgetUsed ==
  /\ pc = "done"
  /\ RetryBudget >= 2
  /\ \E i \in DOMAIN jobs : jobs[i].runs = 1 + RetryBudget /\ jobs[i].last # 0
  /\ \E i \in DOMAIN jobs : jobs[i].runs = 1

\* the section of config at index i, or a new section when there is none
SectionAt(config, i, bid) ==
  IF i \in DOMAIN config THEN config[i] ELSE NewSection(bid)

\* C20: start, end and status of a record are written in this order by
\* the steps of the controlling process: start only when the batch is
\* dispatched, after the end of the attempt before; end and status only
\* together, when the exit code of the job is read, after the start.
C20_StartBeforeEnd ==
  [][\A i \in DOMAIN catalog' :
       LET old == SectionAt(catalog, i, catalog'[i].id)
           new == catalog'[i]
       IN /\ new.start # old.start =>
               /\ pc = "dispatch" /\ pc' = "collect"
               /\ new.start = time_for_log(now)
               /\ new.end = old.end /\ new.status = old.status
               /\ old.end # <<>> =>
                    string_to_time(old.end) <= string_to_time(new.start)
          /\ (new.end # old.end \/ new.status # old.status) =>
               /\ pc = "collect" /\ jidx' = jidx + 1
               /\ new.id = logs[jidx].id
               /\ new.end = time_for_log(now)
               /\ new.status = codes[jidx]
               /\ new.start = old.start
               /\ old.start # <<>>
               /\ string_to_time(old.start) <= string_to_time(new.end)]_vars

\* C20: a record has been started and, later, ended in a retry round
C20_AttemptWritten ==
  /\ pc = "collect"
  /\ round >= 1
  /\ jidx > 1
  /\ \E i \in DOMAIN catalog :
       /\ catalog[i].id = last_job.rec_id
       /\ catalog[i].start # <<>>
       /\ catalog[i].end # <<>>
       /\ string_to_time(catalog[i].start) < string_to_time(catalog[i].end)
       /\ catalog[i].status = last_job.code

\* the call of map_dict_folder has returned to its caller
Mapped == pc = "done" /\ args.action = "map_dict_folder"

\* C30: for every OS family given to it, the folder mapper either fails with
\* an unknown-family error or returns a mapping that has all five categories
\* (user, config, application, system, log); the mapper of the source never
\* fails, so every mapping it returns must have the five categories
C30_MappingHasFiveCategories ==
  Mapped => DOMAIN cmds[1].folders = {FolderKeys[k] : k \in DOMAIN FolderKeys}

\* the mapper was given a family outside unix, windows, macos
C30_UnknownFamilyMapped == Mapped /\ cmds[1].os_name \notin OsNames

\* the options of a section
OptionKeys == DOMAIN NewSection(0) \ {"id"}

\* C28: a call write_catalog(section, key, value) without dry-run leaves a
\* catalog that has the section, with value under key; every other option
\* of the section is as before (absent when the section is new), every other
\* section is unchanged and keeps its place, and a new section comes last.
\* Under dry-run the catalog is unchanged.
C28_WriteUpsertsOneField ==
  [][\A dry \in BOOLEAN, section \in 1..MaxId, o \in Options :
       WriteCatalog(dry, section, o.key, o.value) =>
         IF dry THEN catalog' = catalog
         ELSE LET before == IF has_section(catalog, section)
                            THEN Section(catalog, section)
                            ELSE NewSection(section)
              IN /\ has_section(catalog', section)
                 /\ Section(catalog', section)[o.key] = o.value
                 /\ \A k \in OptionKeys \ {o.key} :
                      Section(catalog', section)[k] = before[k]
                 /\ sections(catalog') =
                      IF has_section(catalog, section) THEN sections(catalog)
                      ELSE Append(sections(catalog), section)
                 /\ \A i \in DOMAIN catalog :
                      catalog[i].id # section => catalog'[i] = catalog[i]]_vars

\* the catalog has two sections, the first with a name, a type and a status
\* and the second with another name: a write to either has options and a
\* neighbour to preserve
C28_TwoSectionsWritten ==
  /\ Len(catalog) = 2
  /\ catalog[1].name = "h1" /\ catalog[1].type = "full" /\ catalog[1].status = 1
  /\ catalog[2].name = "h2" /\ catalog[2].cleaned

\* every job of the batch has been submitted and has completed
BatchCompleted ==
  /\ Len(pool) = ZipLen(batch, logs)
  /\ \A i \in DOMAIN pool : pool[i] = "ready"

\* the step writes an end or a status option of some section
EndOrStatusWritten ==
  \E i \in DOMAIN catalog' :
    LET before == IF has_section(catalog, catalog'[i].id)
                  THEN Section(catalog, catalog'[i].id)
                  ELSE NewSection(catalog'[i].id)
    IN catalog'[i].end # before.end \/ catalog'[i].status # before.status

\* C21: within one run_in_parallel batch, a step that reads the exit code
\* of a job, or that writes an end or status option, is taken only when
\* every job of the batch has completed.
C21_ResultsAfterWholeBatch ==
  [][(Collect({}) \/ EndOrStatusWritten) => BatchCompleted]_vars

\* the first result of a batch of two backup jobs has been read, the
\* second has not
C21_FirstOfTwoRead ==
  /\ pc = "collect" /\ args.action = "backup"
  /\ Len(pool) = 2 /\ jidx = 2
  /\ Section(catalog, logs[1].id).status # -1

\* C22: at every moment the number of jobs that worker processes are
\* running is at most the limit of the pool, and the pool of a restore has
\* the limit 1.
C22_RunningWithinLimit ==
  /\ Cardinality({i \in DOMAIN pool : pool[i] = "running"}) <= limit
  /\ (pool # <<>> /\ args.action # "backup") => limit = 1

\* two jobs are submitted to a pool of one worker: one runs, one waits
C22_MoreJobsThanWorkers ==
  /\ limit = 1 /\ Len(pool) = 2
  /\ pool[1] = "running" /\ pool[2] = "queued"

\* C23: a step of a worker process leaves the catalog as it is, and nothing
\* is written to the catalog between the read and the write of one
\* write_catalog of the controlling process: what it writes is the catalog
\* of that moment with the one option set.
C23_OnlyControllerWrites ==
  /\ [](pc = "write_start" => config_read = catalog)
  /\ [][(WorkerStartStep \/ WorkerExitStep) => catalog' = catalog]_vars

\* the controlling process is between the read and the write of a start
\* option while a worker has finished one job of the batch and runs another
C23_WriteAmidWorkers ==
  /\ pc = "write_start" /\ jidx = 2
  /\ pool[1] = "ready" /\ pool[2] = "running"

\* the user said yes at the prompt: the line that decides is y or Y
SaidYes(typed) == Lower(typed[Len(typed)]) = "y"

\* C29: in a restore, every command added to cmds, and every command of a
\* batch handed to the pool, is of a folder that the user confirmed at its
\* prompt or that was composed in force mode; a folder declined without
\* force has no command.
C29_OnlyConfirmedTransfers ==
  (args.action = "restore") =>
    /\ \A i \in DOMAIN cmds :
         logs[cmds[i].id].force \/ SaidYes(logs[cmds[i].id].typed)
    /\ \A i \in DOMAIN batch : \E j \in DOMAIN cmds : cmds[j] = batch[i]
    /\ \A k \in DOMAIN logs :
         (~logs[k].force /\ ~SaidYes(logs[k].typed)) =>
           \A i \in DOMAIN cmds : cmds[i].id # k

\* of two folders the user declined the first with an empty line and
\* confirmed the second; the one transfer has run
C29_OneDeclinedOneRun ==
  /\ args.action = "restore" /\ pc = "collect"
  /\ Len(logs) = 2 /\ ~logs[1].force
  /\ logs[1].typed = <<"">> /\ SaidYes(logs[2].typed)
  /\ Len(cmds) = 1 /\ cmds[1].id = 2 /\ pool = <<"ready">>

\* C25: the cleaned and archived markers are monotone: a section that has
\* the marker cleaned (archived) before a step of a backup, a retry, a
\* retention, an archive or an export, and is still in the catalog after
\* it, has the marker after it.
C25_MarkersMonotone ==
  [][\A i \in DOMAIN catalog : \A j \in DOMAIN catalog' :
       catalog'[j].id = catalog[i].id =>
         /\ catalog[i].cleaned => catalog'[j].cleaned
         /\ catalog[i].archived => catalog'[j].archived]_vars

\* a section got one marker after the other, and a later backup of the
\* host has completed
C25_MarkedTwiceThenBackup ==
  /\ Len(catalog) >= 2 /\ pc = "idle"
  /\ catalog[1].cleaned /\ catalog[1].archived
  /\ catalog[2].status = 0
  /\ string_to_time(catalog[2].start) > string_to_time(catalog[1].start)

\* C24: when deleting or compressing the folder of a record fails during
\* retention_policy or archive_policy (the folder exists and is in
\* `locked`: it cannot be deleted, or in `zipfail`: it cannot be
\* compressed), the record gets neither the cleaned nor the archived marker
\* in that run; this includes a folder that is compressed and then cannot
\* be deleted.
C24_FailedStorageLeavesUnmarked ==
  [][\A locked \in SUBSET fs, zipfail \in SUBSET fs :
       (\/ \E days \in 0..MaxDays, dest_exists \in BOOLEAN :
             Archive(days, FALSE, dest_exists, locked, zipfail)
        \/ (zipfail = {} /\ ~args.dry_run /\ Collect(locked))) =>
         \A i \in DOMAIN catalog :
           (catalog[i].path \in fs /\ catalog[i].path \in locked \cup zipfail) =>
             /\ catalog'[i].cleaned = catalog[i].cleaned
             /\ catalog'[i].archived = catalog[i].archived]_vars

\* the step sets the option start, end or status of some section
StartEndStatusWritten ==
  \E i \in DOMAIN catalog' :
    LET before == IF has_section(catalog, catalog'[i].id)
                  THEN Section(catalog, catalog'[i].id)
                  ELSE NewSection(catalog'[i].id)
    IN \/ catalog'[i].start # before.start
       \/ catalog'[i].end # before.end
       \/ catalog'[i].status # before.status

\* C26: the options start, end and status of a section are set only by
\* steps of run_in_parallel (the controlling process is at "dispatch" or
\* at "collect"), and so a section that has a status is one whose job was
\* run and has completed.
C26_OnlySchedulerSetsStatus ==
  /\ [][StartEndStatusWritten => pc \in {"dispatch", "collect"}]_vars
  /\ [](\A i \in DOMAIN catalog :
          catalog[i].status # -1 => catalog[i].start # <<>>)

\* two or more ids of the catalog start with the 8 characters q
SharedPrefix(q) ==
  Cardinality({i \in DOMAIN catalog : Prefix8(catalog[i].id) = q}) >= 2

\* C27: a lookup by 8 characters that two or more ids of the catalog start
\* with does not return one of them: `config --delete-backup` with such a
\* string finds no record, and removes no section and no folder.
C27_AmbiguousPrefixFindsNone ==
  [][\A q \in 0..(IdPrefixes - 1), dry \in BOOLEAN, locked \in SUBSET fs :
       (SharedPrefix(q)
          /\ DeleteBackup([short |-> TRUE, v |-> q], dry, TRUE, locked)) =>
         (catalog' = catalog /\ fs' = fs)]_vars

\* C31: a command composed with --start-from set to an id of the catalog
\* carries no --link-dest; it carries --copy-dest with the path of that
\* section when the folder exists at that moment, and no --copy-dest
\* otherwise.
C31_StartFromBaseline ==
  [][(args.sfrom # 0 /\ Len(cmds') = Len(cmds) + 1) =>
       LET c == cmds'[Len(cmds')]
           path == Section(catalog, args.sfrom).path
       IN /\ has_section(catalog, args.sfrom)
          /\ c.link_dest = <<>>
          /\ c.copy_dest = IF path \in fs THEN path ELSE <<>>]_vars

\* an incremental backup of a host that has earlier backups was composed
\* with --start-from: the folder of the first backup is gone, the command
\* starts from the second and got its folder as --copy-dest
C31_CopyDestComposed ==
  /\ args.sfrom = 2 /\ args.mode = "incremental" /\ Len(cmds) = 1
  /\ catalog[1].path \notin fs
  /\ cmds[1].flag = "-ahu" /\ cmds[1].copy_dest = catalog[2].path

\* the section of catalog' at j as it was before the step (with every
\* option absent when the step added it)
Before(j) ==
  IF has_section(catalog, catalog'[j].id)
  THEN Section(catalog, catalog'[j].id)
  ELSE NewSection(catalog'[j].id)

\* C32: a step that writes the start option of a section finds the section
\* with its name, os, type, path and timestamp; and no step changes a type
\* or a path that a section has.
C32_ComposedBeforeStarted ==
  [][\A j \in DOMAIN catalog' :
       /\ catalog'[j].start # Before(j).start =>
            /\ Before(j).name # "" /\ Before(j).os # ""
            /\ Before(j).type # "" /\ Before(j).path # <<>>
            /\ Before(j).timestamp # <<>>
       /\ Before(j).type # "" => catalog'[j].type = Before(j).type
       /\ Before(j).path # <<>> => catalog'[j].path = Before(j).path]_vars

\* the section of id bid is in config and neither cleaned nor archived
LiveIn(config, bid) == has_section(config, bid) /\ Live(Section(config, bid))

\* C33: no two records that are neither cleaned nor archived have the same
\* path, and a step that removes a folder removes the folder of no record
\* that is still neither cleaned nor archived after the step.
C33_LivePathsDistinct ==
  /\ [](\A i, j \in DOMAIN catalog :
          (i # j /\ Live(catalog[i]) /\ Live(catalog[j])
             /\ catalog[i].path # <<>>) =>
            catalog[i].path # catalog[j].path)
  /\ [][\A i \in DOMAIN catalog :
          (Live(catalog[i]) /\ catalog[i].path \in fs
             /\ catalog[i].path \notin fs') =>
            ~LiveIn(catalog', catalog[i].id)]_vars

\* C34: a step of the exit-code loop that calls retention_policy for a host
\* leaves the markers and the folders of the records of every other host as
\* they are.
C34_RetentionOwnHostOnly ==
  [][(pc = "collect" /\ jidx' = jidx + 1 /\ last_job'.ret_host # "") =>
       \A i \in DOMAIN catalog :
         catalog[i].name # last_job'.ret_host =>
           /\ i \in DOMAIN catalog'
           /\ catalog'[i].cleaned = catalog[i].cleaned
           /\ catalog'[i].archived = catalog[i].archived
           /\ catalog[i].path \in fs => catalog[i].path \in fs']_vars

\* retention_policy ran for h2 and cleaned a record of h2 while h1 has a
\* record that is older than the retention and has its folder
C34_OtherHostKept ==
  /\ pc = "collect" /\ last_job.ret_host = "h2"
  /\ \E i \in DOMAIN catalog : catalog[i].name = "h2" /\ catalog[i].cleaned
  /\ \E i \in DOMAIN catalog :
       /\ catalog[i].name = "h1"
       /\ ~catalog[i].cleaned /\ catalog[i].path \in fs
       /\ string_to_time(catalog[i].timestamp) < now

\* C35: a step that marks a section cleaned leaves no folder at the path of
\* that section.
C35_CleanedOnlyWhenAbsent ==
  [][\A j \in DOMAIN catalog' :
       (catalog'[j].cleaned /\ ~Before(j).cleaned) =>
         catalog'[j].path \notin fs']_vars

\* the names of the sections of a catalog
SectionIds(config) == {config[i].id : i \in DOMAIN config}

\* C36: an export with --cut of a backup whose folder exists marks the
\* section that the given id resolves to as cleaned and leaves the set of
\* the sections of the catalog as it is.
C36_CutMarksResolved ==
  [][(pc = "idle" /\ pc' = "dispatch" /\ args'.action = "export"
        /\ ~args'.dry_run /\ cmds'[1].cut /\ cmds'[1].src # <<>>) =>
       /\ SectionIds(catalog') = SectionIds(catalog)
       /\ \E j \in DOMAIN catalog' :
            catalog'[j].path = cmds'[1].src /\ catalog'[j].cleaned]_vars

\* C37: in a catalog that holds a section without name, the only step that
\* ends the process early is the exit of a composition whose --start-from
\* names no section with a path: compose_command, retention_policy and
\* archive_policy run to their end.
C37_PartialRecordTolerated ==
  [][((\E i \in DOMAIN catalog : catalog[i].name = "") /\ pc' = "fatal") =>
       /\ pc = "compose"
       /\ args.sfrom # 0
       /\ \/ ~has_section(catalog, args.sfrom)
          \/ Section(catalog, args.sfrom).path = <<>>
       /\ ~compose_command_raises(catalog, args.mode, args.hostnames[hidx])]_vars

OptionsSet(r) ==
  /\ r.type # "" /\ r.path # <<>> /\ r.name # "" /\ r.os # ""
  /\ r.timestamp # <<>> /\ r.start # <<>> /\ r.end # <<>> /\ r.status # -1

\* C38: a run of config --clean ends normally and leaves a catalog in which
\* every section has type, path, name, os, timestamp, start, end and
\* status; the sections that had a path are all there, and an option that
\* a section had has its value.
C38_CleanCompletes ==
  [][(pc = "idle" /\ pc' \in {"idle", "fatal"} /\ now' = now) =>
       /\ pc' = "idle"
       /\ \A j \in DOMAIN catalog' : OptionsSet(catalog'[j])
       /\ sections(catalog')
            = sections(SelectSeq(catalog, LAMBDA r : r.path # <<>>))
       /\ \A j \in DOMAIN catalog' :
            /\ Before(j).type # "" => catalog'[j].type = Before(j).type
            /\ Before(j).name # "" => catalog'[j].name = Before(j).name
            /\ catalog'[j].path = Before(j).path
            /\ Before(j).timestamp # <<>> =>
                 catalog'[j].timestamp = Before(j).timestamp
            /\ Before(j).status # -1 => catalog'[j].status = Before(j).status]_vars

\* the records of a catalog that are not of the host
OthersOf(config, host) == SelectSeq(config, LAMBDA r : r.name # host)

\* C39: a confirmed delete_host of a host that leaves no folder of the host
\* leaves no section of the host, and leaves the sections of the other
\* hosts as they are; without confirmation it leaves the folders and the
\* catalog as they are.
C39_DeleteHostRemovesAll ==
  [][\A host \in Hosts, answer \in BOOLEAN, locked \in SUBSET fs,
        partial \in SUBSET fs :
       DeleteHost(host, FALSE, answer, locked, partial) =>
         IF answer
         THEN /\ ({f \in fs' : f[1] = host} = {} =>
                   \A j \in DOMAIN catalog' : catalog'[j].name # host)
              /\ OthersOf(catalog', host) = OthersOf(catalog, host)
         ELSE catalog' = catalog /\ fs' = fs]_vars

====
